---- MODULE Spec2Model ----
(***************************************************************************)
(* Capital gains engine of the financial planner backend:                  *)
(*   - the Decimal helpers and records of capital_gains/models.py,         *)
(*   - the term rules of core/tax_rules.py,                                *)
(*   - the FIFO matching loop of capital_gains/calculator.py, one step per *)
(*     loop iteration.                                                     *)
(*                                                                         *)
(* Representation of Decimal values (exact fixed point, as integers):      *)
(*   units  : thousandths        (UNITS_PRECISION  = 0.001)                *)
(*   nav    : ten-thousandths    (NAV_PRECISION    = 0.0001)               *)
(*   money  : hundredths         (MONEY_PRECISION  = 0.01)                 *)
(* A value that has not been quantized yet carries one more decimal digit  *)
(* than its target precision (a factor 10 in the rounding operators).      *)
(* A date is a record [year, month, day]; a ticker or a folio is a         *)
(* sequence of one-character strings.                                      *)
(***************************************************************************)
EXTENDS Integers, Sequences, FiniteSets, TLC

(***************************************************************************)
(* Bounds of the model.                                                    *)
(***************************************************************************)
\* longest transaction list handed to calculate_fifo_gains
MaxTx == 4

(***************************************************************************)
(* models.py: precisions and rounding.                                     *)
(***************************************************************************)
\* number of UNITS_PRECISION steps in one unit (Decimal('0.001'))
UNITS_PRECISION == 1000
\* number of NAV_PRECISION steps in one rupee of NAV (Decimal('0.0001'))
NAV_PRECISION == 10000
\* number of MONEY_PRECISION steps in one rupee (Decimal('0.01'))
MONEY_PRECISION == 100
Abs(x) == IF x < 0 THEN -x ELSE x

Min(a, b) == IF a <= b THEN a ELSE b

\* Decimal.quantize(.., ROUND_HALF_UP): v counts steps f times finer than the
\* target precision; the result counts steps of the target precision.  Ties
\* go away from zero.
ROUND_HALF_UP(v, f) ==
    IF v >= 0 THEN (2 * v + f) \div (2 * f)
    ELSE -((2 * (-v) + f) \div (2 * f))

round_units(value, f) == ROUND_HALF_UP(value, f)

round_nav(value, f) == ROUND_HALF_UP(value, f)

round_money(value, f) == ROUND_HALF_UP(value, f)

\* round_money(units * nav) for units >= 0 in thousandths and nav >= 0 in
\* ten-thousandths.  The product counts steps of 10^-7, the result cents, so
\* the divisor is F = 10^5.  The exact quotient and remainder of units*nav by
\* F are computed by parts so that no intermediate value leaves the range of
\* the model checker's integers:
\*   nav = nh*F + nl, units = uh*K + ul (K = 1000, F = 100*K)
\*   units*nav = (units*nh + (uh*nl) \div 100) * F + rest,
\*   rest = ((uh*nl) % 100) * K + ul*nl.
round_money_product(units, nav) ==
    LET F    == (UNITS_PRECISION * NAV_PRECISION) \div MONEY_PRECISION
        K    == UNITS_PRECISION
        nh   == nav \div F
        nl   == nav % F
        uh   == units \div K
        ul   == units % K
        rest == ((uh * nl) % (F \div K)) * K + ul * nl
        q    == units * nh + (uh * nl) \div (F \div K) + rest \div F
        r    == rest % F
    IN  IF 2 * r >= F THEN q + 1 ELSE q

(***************************************************************************)
(* datetime arithmetic: (a - b).days for dates at midnight.                *)
(***************************************************************************)
IsLeap(y) == (y % 4 = 0) /\ ((y % 100 # 0) \/ (y % 400 = 0))

DaysBeforeMonth(y, m) ==
    LET cum == <<0, 31, 59, 90, 120, 151, 181, 212, 243, 273, 304, 334>>
    IN  cum[m] + (IF m > 2 /\ IsLeap(y) THEN 1 ELSE 0)

toordinal(d) ==
    LET y == d.year - 1
    IN  y * 365 + y \div 4 - y \div 100 + y \div 400
        + DaysBeforeMonth(d.year, d.month) + d.day

Date(y, m, d) == [year |-> y, month |-> m, day |-> d]

\* (sell_date - buy_date).days
days_between(sell_date, buy_date) == toordinal(sell_date) - toordinal(buy_date)

\* date.strftime('%Y-%m-%d'): the three zero-padded fields of the text
strftime(d) == <<d.year, d.month, d.day>>

(***************************************************************************)
(* core/tax_rules.py                                                       *)
(***************************************************************************)
EQUITY_LTCG_THRESHOLD_DAYS == 365

DEBT_TAX_REGIME_CHANGE_DATE == Date(2023, 4, 1)

DEBT_LTCG_THRESHOLD_DAYS_OLD_REGIME == 730

\* faulty variant: a buy on the day of the regime change falls under the old
\* regime
get_debt_fund_term_After(buy_date, sell_date) ==
    LET holding_days == days_between(sell_date, buy_date)
    IN  IF toordinal(buy_date) > toordinal(DEBT_TAX_REGIME_CHANGE_DATE)
        THEN "Short-term"
        ELSE IF holding_days > DEBT_LTCG_THRESHOLD_DAYS_OLD_REGIME
             THEN "Long-term"
             ELSE "Short-term"

get_debt_fund_term(buy_date, sell_date) ==
    LET holding_days == days_between(sell_date, buy_date)
    IN  IF toordinal(buy_date) >= toordinal(DEBT_TAX_REGIME_CHANGE_DATE)
        THEN "Short-term"
        ELSE IF holding_days > DEBT_LTCG_THRESHOLD_DAYS_OLD_REGIME
             THEN "Long-term"
             ELSE "Short-term"

\* faulty variant: the threshold day itself counts as long term
get_equity_fund_term_Inclusive(holding_days) ==
    IF holding_days >= EQUITY_LTCG_THRESHOLD_DAYS
    THEN "Long-term"
    ELSE "Short-term"

get_equity_fund_term(holding_days) ==
    IF holding_days > EQUITY_LTCG_THRESHOLD_DAYS
    THEN "Long-term"
    ELSE "Short-term"

(***************************************************************************)
(* utils.py                                                                *)
(***************************************************************************)
\* f"{start_year}-{str(end_year)[-2:]}": the start year and the last two
\* digits of the end year
get_financial_year(date) ==
    IF date.month >= 4
    THEN <<date.year, (date.year + 1) % 100>>
    ELSE <<date.year - 1, date.year % 100>>

(***************************************************************************)
(* models.py: Transaction, BuyLot, FIFOGain.                               *)
(***************************************************************************)
\* Transaction.__init__: nav and units arrive unquantized (one digit finer),
\* amount is kept as given (in thousandths of a rupee, signed).
Transaction(date, ticker, folio, side, nav, units, amount) ==
    [date |-> date, ticker |-> ticker, folio |-> folio, side |-> side,
     nav |-> round_nav(nav, 10),
     units |-> round_units(Abs(units), 10),
     amount |-> amount]

\* BuyLot.__init__: units, cost_per_unit and original_units are already at
\* their precision; original_total_cost is quantized from the raw amount.
\* id is the identity of the lot object: its rank among the lots created in
\* the call.
BuyLot(id, date, units, cost_per_unit, original_units, original_total_cost) ==
    [id |-> id, date |-> date,
     units_left |-> round_units(units, 1),
     cost_per_unit |-> round_nav(cost_per_unit, 1),
     original_units |-> round_units(original_units, 1),
     original_total_cost |-> round_money(original_total_cost, 10)]

FIFOGain(sell_date, ticker, folio, units, sell_nav, proceeds, buy_date, buy_nav, cost_basis, gain, holding_days, fund_type, term, financial_year) ==
    [sell_date |-> sell_date, ticker |-> ticker, folio |-> folio,
     units |-> units, sell_nav |-> sell_nav, proceeds |-> proceeds,
     buy_date |-> buy_date, buy_nav |-> buy_nav, cost_basis |-> cost_basis,
     gain |-> gain, holding_days |-> holding_days, fund_type |-> fund_type,
     term |-> term, financial_year |-> financial_year]

(***************************************************************************)
(* calculator.py: calculate_fifo_gains.                                    *)
(***************************************************************************)
\* dict.get(key, default) on a dict modelled as a function
DictGet(d, key, default) == IF key \in DOMAIN d THEN d[key] ELSE default

\* f"{tx.ticker}||{tx.folio}"
BucketKey(tx) == tx.ticker \o <<"|", "|">> \o tx.folio

\* lines 37-40: the buckets in the order their keys first appear (a dict keeps
\* insertion order), each holding its transactions in input order
RECURSIVE GroupInto(_, _)
GroupInto(bs, txs) ==
    IF txs = <<>> THEN bs
    ELSE LET tx  == Head(txs)
             key == BucketKey(tx)
             at  == {i \in 1..Len(bs) : bs[i].key = key}
         IN  IF at = {}
             THEN GroupInto(Append(bs, [key |-> key, txs |-> <<tx>>]), Tail(txs))
             ELSE LET i == CHOOSE j \in at : TRUE
                  IN  GroupInto([bs EXCEPT ![i].txs = Append(@, tx)], Tail(txs))

\* faulty variant of lines 43-44: a sort that is not stable, a transaction
\* going before the transactions of its date
SortedInsert_BeforeTies(sorted, tx) ==
    LET later == {i \in 1..Len(sorted) : toordinal(sorted[i].date) >= toordinal(tx.date)}
        pos   == IF later = {} THEN Len(sorted) + 1
                 ELSE CHOOSE i \in later : \A j \in later : i <= j
    IN  SubSeq(sorted, 1, pos - 1) \o <<tx>> \o SubSeq(sorted, pos, Len(sorted))

\* list.sort(key=lambda t: t.date) is stable: a transaction goes after every
\* transaction whose date is not later
SortedInsert(sorted, tx) ==
    LET later == {i \in 1..Len(sorted) : toordinal(sorted[i].date) > toordinal(tx.date)}
        pos   == IF later = {} THEN Len(sorted) + 1
                 ELSE CHOOSE i \in later : \A j \in later : i <= j
    IN  SubSeq(sorted, 1, pos - 1) \o <<tx>> \o SubSeq(sorted, pos, Len(sorted))

\* faulty variant of lines 43-44: the bucket is left in the order of the
\* input
SortByDate_InputOrder(txs) == txs

\* the transactions before the last are sorted once, and the last is
\* inserted
RECURSIVE SortByDate(_)
SortByDate(txs) ==
    IF txs = <<>> THEN <<>>
    ELSE CHOOSE r \in {SortedInsert(sorted, txs[Len(txs)]) :
                           sorted \in {SortByDate(SubSeq(txs, 1, Len(txs) - 1))}} : TRUE

\* lines 37-44
MakeBuckets(txs) ==
    LET grouped == GroupInto(<<>>, txs)
    IN  [i \in 1..Len(grouped) |-> [grouped[i] EXCEPT !.txs = SortByDate(@)]]

\* faulty variant of line 83: the reference table is asked first
EffectiveFundType_TableFirst(ticker, mapping, overrides) ==
    IF ticker \in DOMAIN mapping THEN mapping[ticker]
    ELSE DictGet(overrides, ticker, "unknown")

\* line 83: manual_overrides.get(ticker) or fund_type_mapping.get(ticker, 'unknown')
\* (None and the empty string are falsy)
EffectiveFundType(ticker, mapping, overrides) ==
    LET o == DictGet(overrides, ticker, "")
    IN  IF o # "" THEN o ELSE DictGet(mapping, ticker, "unknown")

\* faulty variant of lines 86-92: what is not debt gets the equity rule
TermFor_EquityUnlessDebt(fund_type, lot_date, tx_date) ==
    IF fund_type = "debt"
    THEN get_debt_fund_term(lot_date, tx_date)
    ELSE get_equity_fund_term(days_between(tx_date, lot_date))

\* lines 86-92
TermFor(fund_type, lot_date, tx_date) ==
    IF fund_type = "equity"
    THEN get_equity_fund_term(days_between(tx_date, lot_date))
    ELSE IF fund_type = "debt"
         THEN get_debt_fund_term(lot_date, tx_date)
         ELSE get_debt_fund_term(lot_date, tx_date)

\* faulty variant of lines 68-69: the whole remainder, without the min
UnitsMatched_NoMin(units_to_match_now, lot) ==
    round_units(units_to_match_now, 1)

\* lines 68-69
UnitsMatched(units_to_match_now, lot) ==
    round_units(Min(units_to_match_now, lot.units_left), 1)

\* faulty variant of lines 72-75: the cost is always recomputed
MatchCost_Recomputed(matched, lot) ==
    round_money_product(matched, lot.cost_per_unit)

\* lines 72-75
MatchCost(matched, lot) ==
    IF matched = lot.units_left /\ matched = lot.original_units
    THEN lot.original_total_cost
    ELSE round_money_product(matched, lot.cost_per_unit)

\* faulty variant of lines 114-115: a lot is taken from the queue only when
\* its units have gone below zero
Exhausted_BelowZero(units_left) == units_left < 0

\* line 114: lot.units_left <= Decimal('0')
Exhausted(units_left) == units_left <= 0

\* lines 66-115: one iteration of the while loop against the lot `lot`
MatchStep(lot, tx, units_to_match_now, mapping, overrides) ==
    LET matched      == UnitsMatched(units_to_match_now, lot)
        cost         == MatchCost(matched, lot)
        proceeds     == round_money_product(matched, tx.nav)
        gain         == round_money(proceeds - cost, 1)
        holding_days == days_between(tx.date, lot.date)
        fund_type    == EffectiveFundType(tx.ticker, mapping, overrides)
        term         == TermFor(fund_type, lot.date, tx.date)
    IN  [gain |-> FIFOGain(strftime(tx.date), tx.ticker, tx.folio, matched,
                           tx.nav, proceeds, strftime(lot.date),
                           lot.cost_per_unit, cost, gain, holding_days,
                           fund_type, term, get_financial_year(tx.date)),
         units_to_match |-> round_units(units_to_match_now - matched, 1),
         units_left |-> round_units(lot.units_left - matched, 1)]

\* faulty variant of line 63: what the sell before left unmatched is added
UnitsOfSell_Carried(tx, left_over) == tx.units + left_over

\* line 63: units_to_match = tx.units; the variable is assigned anew, and
\* what it held after the sell before is gone
UnitsOfSell(tx, left_over) == tx.units

\* faulty variant of line 66: the newest lot instead of the oldest
FrontLot_Newest(queue) == queue[Len(queue)]

\* line 66: the lot the loop takes from the queue
FrontLot(queue) == queue[1]

\* line 60: fifo_queue.append(lot)
Enqueue(queue, lot) == Append(queue, lot)

VARIABLES
    transactions,       \* argument of calculate_fifo_gains
    fund_type_mapping,  \* argument: ticker -> type of the reference table
    manual_overrides,   \* argument: ticker -> overriding type
    pc,                 \* position in calculate_fifo_gains
    buckets,            \* the buckets dict, in insertion order
    bucket_idx,         \* index of the bucket the outer loop is at
    tx_idx,             \* index of the transaction the inner loop is at
    fifo_queue,         \* the open lots of the current bucket
    units_to_match,     \* the sell's units still to match
    all_gains,          \* the gain records emitted so far
    warnings,           \* what logger.warning was given
    created_lots,       \* history: the BuyLot objects created so far, each
                        \* as created, with the buy it came from
    match_log,          \* history: for each gain record, the lot as it was
                        \* when matched, the sell and its remaining units
    sell_queue,         \* history: the queue as it was when the current
                        \* sell started
    call,               \* a call of one of the pure functions: its name and
                        \* its arguments
    result,             \* what that call returned, once it has returned
    outputs,            \* OUTPUTS_DIR: the transaction file at each path
    overrides_file,     \* FUND_TYPE_OVERRIDES_FILE
    cache_file,         \* FIFO_CACHE_FILE
    metadata_file,      \* FIFO_METADATA_FILE
    last_op,            \* history: the last operation on the service or on
                        \* the data directory, and what it returned
    threads,            \* the calls of the service that run each on its own
                        \* thread: where each is and its local variables
    thread_log          \* history: the override store when the calls were
                        \* made, and what the list of the cache file was
                        \* computed from

fifoVars == <<transactions, fund_type_mapping, manual_overrides, pc, buckets, bucket_idx, tx_idx, fifo_queue, units_to_match, all_gains, warnings, created_lots, match_log, sell_queue>>

serviceVars == <<outputs, overrides_file, cache_file, metadata_file, last_op>>

threadVars == <<threads, thread_log>>

nonFifoVars == <<call, result, threadVars, serviceVars>>

vars == <<fifoVars, nonFifoVars>>

\* no pure function is being called
NoCall == [fn |-> "none"]

\* the call has not returned
NoResult == "pending"

\* a file that does not exist
NoFile == [exists |-> FALSE]

\* the paths OUTPUTS_DIR/<date_dir>/transactions_<file_id>.json a
\* transaction file may be at: two files of one directory, and a file of
\* another directory that has the id of one of them
TransactionPaths ==
    { [date_dir |-> "2024-01-15", file_id |-> "a1b2"],
      [date_dir |-> "2024-01-15", file_id |-> "c3d4"],
      [date_dir |-> "2024-02-20", file_id |-> "a1b2"] }

NoOp == [op |-> "none"]

\* no call runs on a thread of its own
NoThreads == <<>>

\* a fresh process on an empty data directory
ServiceIdle ==
    /\ outputs = [p \in TransactionPaths |-> NoFile]
    /\ overrides_file = NoFile
    /\ cache_file = NoFile
    /\ metadata_file = NoFile
    /\ last_op = NoOp
    /\ threads = NoThreads
    /\ thread_log = NoOp

PureIdle == call = NoCall /\ result = NoResult /\ ServiceIdle

inputVars == <<transactions, fund_type_mapping, manual_overrides>>

RECURSIVE SumSeq(_)
SumSeq(s) == IF s = <<>> THEN 0 ELSE Head(s) + SumSeq(Tail(s))

QueueUnits(queue) == SumSeq([i \in 1..Len(queue) |-> queue[i].units_left])

CurrentBucket == buckets[bucket_idx].txs

CurrentTx == CurrentBucket[tx_idx]

\* state at entry of calculate_fifo_gains with the given arguments
FifoStart(txs, mapping, overrides) ==
    /\ transactions = txs
    /\ fund_type_mapping = mapping
    /\ manual_overrides = overrides
    /\ pc = "group"
    /\ buckets = <<>>
    /\ bucket_idx = 0
    /\ tx_idx = 0
    /\ fifo_queue = <<>>
    /\ units_to_match = 0
    /\ all_gains = <<>>
    /\ warnings = <<>>
    /\ created_lots = <<>>
    /\ match_log = <<>>
    /\ sell_queue = <<>>

\* lines 37-46
GroupAndSort ==
    /\ pc = "group"
    /\ buckets' = MakeBuckets(transactions)
    /\ pc' = "buckets"
    /\ UNCHANGED <<nonFifoVars, inputVars, bucket_idx, tx_idx, fifo_queue, units_to_match, all_gains, warnings, created_lots, match_log, sell_queue>>

\* lines 48-49: the outer loop takes the next bucket with an empty queue
NextBucket ==
    /\ pc = "buckets"
    /\ bucket_idx < Len(buckets)
    /\ bucket_idx' = bucket_idx + 1
    /\ tx_idx' = 0
    /\ fifo_queue' = <<>>
    /\ pc' = "txs"
    /\ UNCHANGED <<nonFifoVars, inputVars, buckets, units_to_match, all_gains, warnings, created_lots, match_log, sell_queue>>

\* line 126: no bucket is left
Return ==
    /\ pc = "buckets"
    /\ bucket_idx = Len(buckets)
    /\ pc' = "done"
    /\ UNCHANGED <<nonFifoVars, inputVars, buckets, bucket_idx, tx_idx, fifo_queue, units_to_match, all_gains, warnings, created_lots, match_log, sell_queue>>

\* line 51: the inner loop has no transaction left in this bucket
EndBucket ==
    /\ pc = "txs"
    /\ tx_idx = Len(CurrentBucket)
    /\ pc' = "buckets"
    /\ UNCHANGED <<nonFifoVars, inputVars, buckets, bucket_idx, tx_idx, fifo_queue, units_to_match, all_gains, warnings, created_lots, match_log, sell_queue>>

\* lines 52-60
ProcessBuy ==
    /\ pc = "txs"
    /\ tx_idx < Len(CurrentBucket)
    /\ LET tx  == CurrentBucket[tx_idx + 1]
           lot == BuyLot(Len(created_lots) + 1, tx.date, tx.units, tx.nav, tx.units, Abs(tx.amount))
       IN  /\ tx.side = "buy"
           /\ fifo_queue' = Enqueue(fifo_queue, lot)
           /\ created_lots' = Append(created_lots, [lot |-> lot, bucket |-> bucket_idx, tx |-> tx_idx + 1])
    /\ tx_idx' = tx_idx + 1
    /\ UNCHANGED <<nonFifoVars, inputVars, pc, buckets, bucket_idx, units_to_match, all_gains, warnings, match_log, sell_queue>>

\* lines 62-63
StartSell ==
    /\ pc = "txs"
    /\ tx_idx < Len(CurrentBucket)
    /\ LET tx == CurrentBucket[tx_idx + 1]
       IN  /\ tx.side = "sell"
           /\ units_to_match' = UnitsOfSell(tx, units_to_match)
    /\ tx_idx' = tx_idx + 1
    /\ sell_queue' = fifo_queue
    /\ pc' = "match"
    /\ UNCHANGED <<nonFifoVars, inputVars, buckets, bucket_idx, fifo_queue, all_gains, warnings, created_lots, match_log>>

\* lines 65-118: one iteration of the while loop
Match ==
    /\ pc = "match"
    /\ units_to_match > 0 /\ fifo_queue # <<>>
    /\ LET lot  == FrontLot(fifo_queue)
           step == MatchStep(lot, CurrentTx, units_to_match, fund_type_mapping, manual_overrides)
           at   == CHOOSE i \in 1..Len(fifo_queue) : fifo_queue[i].id = lot.id
       IN  /\ all_gains' = Append(all_gains, step.gain)
           /\ units_to_match' = step.units_to_match
           /\ fifo_queue' =
                  LET q == [fifo_queue EXCEPT ![at].units_left = step.units_left]
                  IN  IF Exhausted(step.units_left) THEN Tail(q) ELSE q
           /\ match_log' = Append(match_log, [lot |-> lot, bucket |-> bucket_idx, tx |-> tx_idx, units_to_match |-> units_to_match])
    /\ UNCHANGED <<nonFifoVars, inputVars, pc, buckets, bucket_idx, tx_idx, warnings, created_lots, sell_queue>>

\* lines 65, 120-124: the loop ends; what could not be matched is logged
EndSell ==
    /\ pc = "match"
    /\ ~(units_to_match > 0 /\ fifo_queue # <<>>)
    /\ warnings' =
          IF units_to_match > 0
          THEN Append(warnings, [ticker |-> CurrentTx.ticker, folio |-> CurrentTx.folio, units |-> units_to_match, date |-> strftime(CurrentTx.date)])
          ELSE warnings
    /\ pc' = "txs"
    /\ UNCHANGED <<nonFifoVars, inputVars, buckets, bucket_idx, tx_idx, fifo_queue, units_to_match, all_gains, created_lots, match_log, sell_queue>>

\* the steps of the two loops and the return
LoopStep ==
    \/ NextBucket
    \/ Return
    \/ EndBucket
    \/ ProcessBuy
    \/ StartSell
    \/ Match
    \/ EndSell

Next ==
    \/ GroupAndSort
    \/ LoopStep

(***************************************************************************)
(* Inputs.  Raw units count steps of 0.0001, raw NAVs steps of 0.00001 and *)
(* amounts steps of 0.001 (buys are recorded as outflows).                 *)
(***************************************************************************)
TickerX == <<"X">>

TickerY == <<"Y">>

FolioF == <<"F">>

\* the lists of at most n transactions over the rows
TxLists(rows, n) == UNION {[1..k -> rows] : k \in 0..n}

EmptyDict == [t \in {} |-> ""]

\* rows of one fund: two buys (the second with an amount that is not
\* units x NAV), a buy whose units round to 0.000, a sell of one and a half
\* lots, a sell of one lot, a sell dated as the first buy with values that
\* need rounding; and a buy of another fund
FifoRows ==
    { Transaction(Date(2022, 1, 1), TickerX, FolioF, "buy", 1000000, 1000000, -1000000),
      Transaction(Date(2023, 3, 31), TickerX, FolioF, "buy", 1200000, 1000000, -1200055),
      Transaction(Date(2023, 3, 31), TickerX, FolioF, "buy", 1200004, 4, -5),
      Transaction(Date(2024, 1, 1), TickerX, FolioF, "sell", 1500000, -1500000, 2250000),
      Transaction(Date(2024, 1, 1), TickerX, FolioF, "sell", 1500000, 1000000, 1500000),
      Transaction(Date(2022, 1, 1), TickerX, FolioF, "sell", 999995, 500005, 500010),
      Transaction(Date(2022, 1, 1), TickerY, FolioF, "buy", 1000000, 1000000, -1000000) }

FifoMapping == (TickerX :> "debt") @@ (TickerY :> "equity")

Init ==
    /\ \E txs \in TxLists(FifoRows, MaxTx) :
          FifoStart(txs, FifoMapping, EmptyDict)
    /\ PureIdle

Spec == Init /\ [][Next]_vars

(***************************************************************************)
(* calculate_fifo_gains on funds of every type, with and without           *)
(* overrides, bought and sold around the thresholds of the term rules.     *)
(***************************************************************************)
\* longest transaction list of these runs
MaxTermTx == 3

TickerE == <<"E">>

TickerD == <<"D">>

TickerU == <<"U">>

TickerN == <<"N">>

\* the reference table: E is equity, D is debt, N was classified unknown,
\* U is not in the table
TermMapping == (TickerE :> "equity") @@ (TickerD :> "debt") @@ (TickerN :> "unknown")

\* the override stores tried (values are 'equity' or 'debt', as
\* save_fund_type_override admits)
TermOverrides ==
    { EmptyDict,
      (TickerD :> "equity"),
      (TickerE :> "debt"),
      (TickerU :> "equity") @@ (TickerN :> "debt"),
      (TickerD :> "debt") @@ (TickerE :> "equity") }

\* 100 units at 10 bought the day before and the day of the regime change,
\* and sold 365, 366, 730 and 731 days after the first buy
TermRows(ticker) ==
    { Transaction(Date(2023, 3, 31), ticker, FolioF, "buy", 1000000, 1000000, -1000000),
      Transaction(Date(2023, 4, 1), ticker, FolioF, "buy", 1000000, 1000000, -1000000),
      Transaction(Date(2024, 3, 30), ticker, FolioF, "sell", 1100000, 1000000, 1100000),
      Transaction(Date(2024, 3, 31), ticker, FolioF, "sell", 1100000, 1000000, 1100000),
      Transaction(Date(2025, 3, 30), ticker, FolioF, "sell", 1100000, 1000000, 1100000),
      Transaction(Date(2025, 3, 31), ticker, FolioF, "sell", 1100000, 1000000, 1100000) }

InitTerm ==
    /\ \E ticker \in {TickerE, TickerD, TickerU, TickerN} :
          \E txs \in TxLists(TermRows(ticker), MaxTermTx) :
              \E overrides \in TermOverrides :
                  FifoStart(txs, TermMapping, overrides)
    /\ PureIdle

SpecTerm == InitTerm /\ [][Next]_vars

(***************************************************************************)
(* The term rules called on their own (core/tax_rules.py).                 *)
(***************************************************************************)
\* the sell dates tried lie within YearSpan years of the regime change
YearSpan == 3

\* the longest holding period given to the equity rule
MaxHoldingDays == 800

DaysInMonth(y, m) ==
    IF m = 2 THEN (IF IsLeap(y) THEN 29 ELSE 28)
    ELSE IF m \in {4, 6, 9, 11} THEN 30 ELSE 31

\* every calendar date of the years y1..y2
DatesOfYears(y1, y2) ==
    UNION { UNION { {Date(y, m, d) : d \in 1..DaysInMonth(y, m)} : m \in 1..12 } : y \in y1..y2 }

\* buy dates: the days around the regime change, and the buy dates of
\* test_debt_fund_rules
TaxBuyDates ==
    { Date(2023, 3, 30), Date(2023, 3, 31), Date(2023, 4, 1), Date(2023, 4, 2),
      Date(2022, 1, 1), Date(2023, 5, 1) }

TaxSellDates ==
    DatesOfYears(DEBT_TAX_REGIME_CHANGE_DATE.year - YearSpan, DEBT_TAX_REGIME_CHANGE_DATE.year + YearSpan)

TaxCalls ==
    {[fn |-> "get_equity_fund_term", holding_days |-> h] : h \in (-1)..MaxHoldingDays}
    \cup {[fn |-> "get_debt_fund_term", buy_date |-> b, sell_date |-> s] : b \in TaxBuyDates, s \in TaxSellDates}

FifoIdle == FifoStart(<<>>, EmptyDict, EmptyDict)

InitTax ==
    /\ FifoIdle
    /\ call \in TaxCalls
    /\ result = NoResult
    /\ ServiceIdle

CallEquityTerm ==
    /\ call.fn = "get_equity_fund_term"
    /\ result = NoResult
    /\ result' = get_equity_fund_term(call.holding_days)
    /\ UNCHANGED <<fifoVars, threadVars, call, serviceVars>>

CallDebtTerm ==
    /\ call.fn = "get_debt_fund_term"
    /\ result = NoResult
    /\ result' = get_debt_fund_term(call.buy_date, call.sell_date)
    /\ UNCHANGED <<fifoVars, threadVars, call, serviceVars>>

NextTax ==
    \/ CallEquityTerm
    \/ CallDebtTerm

SpecTax == InitTax /\ [][NextTax]_vars

(***************************************************************************)
(* capital_gains/classifier.py.  A string is a sequence of one-character   *)
(* strings; a percentage is counted in thousandths of a percent.           *)
(***************************************************************************)
\* config.py: EQUITY_PERCENTAGE_THRESHOLD = 65.0, in percent
EQUITY_PERCENTAGE_THRESHOLD == 65

Digits == {"0", "1", "2", "3", "4", "5", "6", "7", "8", "9"}

DigitValue(c) ==
    CASE c = "0" -> 0 [] c = "1" -> 1 [] c = "2" -> 2 [] c = "3" -> 3
      [] c = "4" -> 4 [] c = "5" -> 5 [] c = "6" -> 6 [] c = "7" -> 7
      [] c = "8" -> 8 [] c = "9" -> 9

\* str.lower() on the letters the tickers are written with
LowerChar(c) ==
    CASE c = "A" -> "a" [] c = "B" -> "b" [] c = "F" -> "f" [] c = "I" -> "i"
      [] c = "R" -> "r" [] c = "X" -> "x" [] OTHER -> c

lower(str) == [i \in 1..Len(str) |-> LowerChar(str[i])]

\* sub in str
Contains(str, sub) ==
    \E i \in 1..(Len(str) - Len(sub) + 1) : SubSeq(str, i, i + Len(sub) - 1) = sub

\* str.strip()
RECURSIVE strip(_)
strip(str) ==
    IF str = <<>> THEN <<>>
    ELSE IF Head(str) = " " THEN strip(Tail(str))
    ELSE IF str[Len(str)] = " " THEN strip(SubSeq(str, 1, Len(str) - 1))
    ELSE str

\* str.replace('%', '')
RemovePercent(str) == SelectSeq(str, LAMBDA c : c # "%")

RECURSIVE NumberOf(_)
NumberOf(digits) ==
    IF digits = <<>> THEN 0
    ELSE 10 * NumberOf(SubSeq(digits, 1, Len(digits) - 1)) + DigitValue(digits[Len(digits)])

Pow10(n) == IF n = 0 THEN 1 ELSE IF n = 1 THEN 10 ELSE IF n = 2 THEN 100 ELSE 1000

\* Decimal(str): surrounding whitespace is ignored; an optional sign, then
\* digits with at most one point and at least one digit; anything else
\* raises.  The value is counted in thousandths (strings with at most three
\* digits after the point).
ParseDecimal(str) ==
    LET t      == strip(str)
        signed == t # <<>> /\ Head(t) \in {"-", "+"}
        body   == IF signed THEN Tail(t) ELSE t
        dots   == {i \in 1..Len(body) : body[i] = "."}
        valid  == /\ Cardinality(dots) <= 1
                  /\ \A i \in 1..Len(body) : body[i] \in Digits \cup {"."}
                  /\ \E i \in 1..Len(body) : body[i] \in Digits
        dot    == IF dots = {} THEN Len(body) + 1 ELSE CHOOSE i \in dots : TRUE
        whole  == SubSeq(body, 1, dot - 1)
        frac   == SubSeq(body, dot + 1, Len(body))
        mag    == NumberOf(whole) * 1000 + NumberOf(frac) * Pow10(3 - Len(frac))
    IN  IF valid
        THEN [ok |-> TRUE, value |-> IF signed /\ Head(t) = "-" THEN -mag ELSE mag]
        ELSE [ok |-> FALSE, value |-> 0]

\* lines 18-35
parse_percentage(pct_str) ==
    IF pct_str = <<>> \/ strip(pct_str) = <<>> THEN 0
    ELSE LET d == ParseDecimal(RemovePercent(strip(pct_str)))
         IN  IF d.ok THEN d.value ELSE 0

\* faulty variant of line 77: the threshold itself is not equity
ThresholdReached_Strict(equity_pct) == equity_pct > EQUITY_PERCENTAGE_THRESHOLD * 1000

\* line 77: equity_pct >= EQUITY_PERCENTAGE_THRESHOLD
ThresholdReached(equity_pct) == equity_pct >= EQUITY_PERCENTAGE_THRESHOLD * 1000

\* lines 37-77
classify_fund_type(ticker, large_cap, mid_cap, small_cap, other_cap) ==
    IF Contains(lower(ticker), <<"a", "r", "b", "i">>) THEN "equity"
    ELSE LET caps       == <<large_cap, mid_cap, small_cap, other_cap>>
             all_empty  == \A i \in 1..4 : strip(caps[i]) = <<>>
             equity_pct == parse_percentage(large_cap) + parse_percentage(mid_cap)
                           + parse_percentage(small_cap) + parse_percentage(other_cap)
         IN  IF all_empty THEN "unknown"
             ELSE IF ThresholdReached(equity_pct) THEN "equity" ELSE "debt"

\* the tickers tried: ARBI, xArbIF, ARB, X, and "AR BI"
ClassifyTickers ==
    { <<"A", "R", "B", "I">>, <<"x", "A", "r", "b", "I", "F">>, <<"A", "R", "B">>,
      <<"X">>, <<"A", "R", " ", "B", "I">> }

\* the percentage strings tried: "", " ", "65%", "64.99%", "0%", "0.01",
\* "x%", "30 %"
PctStrings ==
    { <<>>, <<" ">>, <<"6", "5", "%">>, <<"6", "4", ".", "9", "9", "%">>,
      <<"0", "%">>, <<"0", ".", "0", "1">>, <<"x", "%">>, <<"3", "0", " ", "%">> }

ClassifyCalls ==
    {[fn |-> "classify_fund_type", ticker |-> t, large_cap |-> l, mid_cap |-> m, small_cap |-> sm, other_cap |-> o] :
        t \in ClassifyTickers, l \in PctStrings, m \in PctStrings, sm \in PctStrings, o \in PctStrings}

InitClassify ==
    /\ FifoIdle
    /\ call \in ClassifyCalls
    /\ result = NoResult
    /\ ServiceIdle

CallClassify ==
    /\ call.fn = "classify_fund_type"
    /\ result = NoResult
    /\ result' = classify_fund_type(call.ticker, call.large_cap, call.mid_cap, call.small_cap, call.other_cap)
    /\ UNCHANGED <<fifoVars, threadVars, call, serviceVars>>

NextClassify == CallClassify

SpecClassify == InitClassify /\ [][NextClassify]_vars

(***************************************************************************)
(* calculate_fifo_gains as a function of its arguments: the loops of       *)
(* lines 48-126 run to completion.                                         *)
(***************************************************************************)
\* lines 65-118: the while loop of one sell
RECURSIVE MatchLoop(_, _, _, _, _)
RECURSIVE Matched(_, _, _, _, _, _)
\* lines 94-118: the gain record is appended and the lot is updated, and
\* popped when nothing is left of it
Matched(st, tx, at, step, mapping, overrides) ==
    MatchLoop([st EXCEPT !.fifo_queue = IF step.units_left <= 0
                                        THEN Tail([@ EXCEPT ![at].units_left = step.units_left])
                                        ELSE [@ EXCEPT ![at].units_left = step.units_left],
                         !.all_gains = Append(@, step.gain)],
              tx, step.units_to_match, mapping, overrides)

MatchLoop(st, tx, to_match, mapping, overrides) ==
    IF ~(to_match > 0 /\ st.fifo_queue # <<>>) THEN st
    ELSE Matched(st, tx,
                 CHOOSE i \in 1..Len(st.fifo_queue) : st.fifo_queue[i].id = FrontLot(st.fifo_queue).id,
                 MatchStep(FrontLot(st.fifo_queue), tx, to_match, mapping, overrides),
                 mapping, overrides)

\* lines 51-124: the transactions of one bucket
RECURSIVE BucketLoop(_, _, _, _)
BucketLoop(st, txs, mapping, overrides) ==
    IF txs = <<>> THEN st
    ELSE LET tx == Head(txs)
         IN  IF tx.side = "buy"
             THEN BucketLoop([st EXCEPT !.fifo_queue = Enqueue(@, BuyLot(st.lots + 1, tx.date, tx.units, tx.nav, tx.units, Abs(tx.amount))),
                                        !.lots = @ + 1],
                             Tail(txs), mapping, overrides)
             ELSE BucketLoop(MatchLoop(st, tx, tx.units, mapping, overrides), Tail(txs), mapping, overrides)

\* lines 48-49: every bucket starts with an empty queue
RECURSIVE BucketsLoop(_, _, _, _)
BucketsLoop(st, bs, mapping, overrides) ==
    IF bs = <<>> THEN st
    ELSE BucketsLoop(BucketLoop([st EXCEPT !.fifo_queue = <<>>], Head(bs).txs, mapping, overrides),
                     Tail(bs), mapping, overrides)

\* lines 20-126
calculate_fifo_gains(txs, mapping, overrides) ==
    BucketsLoop([fifo_queue |-> <<>>, all_gains |-> <<>>, lots |-> 0],
                MakeBuckets(txs), mapping, overrides).all_gains

(***************************************************************************)
(* The data directory.  A file is absent, or holds JSON, or holds          *)
(* something json.load refuses (a write that was cut short).  A            *)
(* modification time is a reading of a clock that counts from 1.           *)
(***************************************************************************)
MaxMtime == 2

JsonFile(data) == [exists |-> TRUE, json |-> TRUE, data |-> data]

Truncated == [exists |-> TRUE, json |-> FALSE]

TransactionFile(rows, mtime) == [exists |-> TRUE, json |-> TRUE, data |-> rows, mtime |-> mtime]

\* the ids of TransactionPaths, in the order of Python's string comparison
FileIdsInOrder == <<"a1b2", "c3d4">>

IdRank(file_id) == CHOOSE i \in 1..Len(FileIdsInOrder) : FileIdsInOrder[i] = file_id

\* sorted(file_ids)
RECURSIVE sorted(_)
sorted(file_ids) ==
    IF file_ids = <<>> THEN <<>>
    ELSE LET rest  == sorted(SubSeq(file_ids, 1, Len(file_ids) - 1))
             id    == file_ids[Len(file_ids)]
             later == {i \in 1..Len(rest) : IdRank(rest[i]) > IdRank(id)}
             pos   == IF later = {} THEN Len(rest) + 1
                      ELSE CHOOSE i \in later : \A j \in later : i <= j
         IN  SubSeq(rest, 1, pos - 1) \o <<id>> \o SubSeq(rest, pos, Len(rest))

\* the orders in which OUTPUTS_DIR.iterdir() and date_dir.glob() can yield
\* the files present: the directories in any order, the files of a
\* directory together and in any order
ScanOrders(out) ==
    LET present == {p \in TransactionPaths : out[p].exists}
        n       == Cardinality(present)
    IN  {o \in [1..n -> present] :
            /\ \A i, j \in 1..n : i # j => o[i] # o[j]
            /\ \A i, j, k \in 1..n :
                  (i < j /\ j < k /\ o[i].date_dir = o[k].date_dir) => o[j].date_dir = o[i].date_dir}

(***************************************************************************)
(* capital_gains/cache_manager.py.                                         *)
(***************************************************************************)
\* lines 20-40
get_transaction_file_ids(out) ==
    LET o == CHOOSE s \in ScanOrders(out) : TRUE
    IN  sorted([i \in 1..Len(o) |-> o[i].file_id])

\* faulty variant of line 59: the lists are as long as each other
SameFileIds_Count(cached_file_ids, current_file_ids) ==
    Len(cached_file_ids) = Len(current_file_ids)

\* line 59: cached_file_ids == current_file_ids
SameFileIds(cached_file_ids, current_file_ids) ==
    cached_file_ids = current_file_ids

\* faulty variant of lines 60-62: metadata that cannot be read is valid
is_cache_valid_FailOpen(cache, metadata, out) ==
    IF ~cache.exists \/ ~metadata.exists THEN FALSE
    ELSE IF ~metadata.json THEN TRUE
    ELSE SameFileIds(metadata.data.processed_file_ids, get_transaction_file_ids(out))

\* lines 43-62: json.load raises on a file that is not JSON, and the
\* exception is caught
is_cache_valid(cache, metadata, out) ==
    IF ~cache.exists \/ ~metadata.exists THEN FALSE
    ELSE IF ~metadata.json THEN FALSE
    ELSE SameFileIds(metadata.data.processed_file_ids, get_transaction_file_ids(out))

\* faulty variant of lines 65-75: nothing is deleted
invalidate_cache_Nothing(cache, metadata) == [cache_file |-> cache, metadata_file |-> metadata]

\* lines 65-75: what is left of the two files
invalidate_cache(cache, metadata) == [cache_file |-> NoFile, metadata_file |-> NoFile]

(***************************************************************************)
(* capital_gains/repository.py.  The rows of a transaction file carry      *)
(* their numbers as strings.                                               *)
(***************************************************************************)
\* str.replace(',', '')
RemoveCommas(str) == SelectSeq(str, LAMBDA c : c # ",")

RECURSIVE TenTo(_)
TenTo(n) == IF n = 0 THEN 1 ELSE 10 * TenTo(n - 1)

\* Decimal(str), counted in units of 10^-places: surrounding whitespace is
\* ignored; an optional sign, then digits with at most one point and at
\* least one digit; anything else raises decimal.InvalidOperation (strings
\* with at most `places` digits after the point)
Decimal(str, places) ==
    LET t      == strip(str)
        signed == t # <<>> /\ Head(t) \in {"-", "+"}
        body   == IF signed THEN Tail(t) ELSE t
        dots   == {i \in 1..Len(body) : body[i] = "."}
        valid  == /\ Cardinality(dots) <= 1
                  /\ \A i \in 1..Len(body) : body[i] \in Digits \cup {"."}
                  /\ \E i \in 1..Len(body) : body[i] \in Digits
        dot    == IF dots = {} THEN Len(body) + 1 ELSE CHOOSE i \in dots : TRUE
        whole  == SubSeq(body, 1, dot - 1)
        frac   == SubSeq(body, dot + 1, Len(body))
        mag    == NumberOf(whole) * TenTo(places) + NumberOf(frac) * TenTo(places - Len(frac))
    IN  IF valid
        THEN [ok |-> TRUE, value |-> IF signed /\ Head(t) = "-" THEN -mag ELSE mag]
        ELSE [ok |-> FALSE, value |-> 0]

\* datetime.strptime(row['date'], '%Y-%m-%d') raises ValueError unless the
\* string names a day of the calendar
strptime(date) ==
    [ok |-> date.month \in 1..12 /\ date.day \in 1..DaysInMonth(date.year, date.month),
     date |-> date]

\* s.startswith('(') and s.endswith(')')
InParentheses(s) == Len(s) >= 2 /\ Head(s) = "(" /\ s[Len(s)] = ")"

\* s[1:-1] of a string in parentheses, s of another one
Unwrapped(s) == IF InParentheses(s) THEN SubSeq(s, 2, Len(s) - 1) ELSE s

\* lines 41-48, with the Decimal the string gave
SideOf(in_parentheses, units_value) ==
    [ok |-> units_value.ok,
     side |-> IF in_parentheses \/ units_value.value < 0 THEN "sell" ELSE "buy",
     units |-> Abs(units_value.value)]

\* lines 29-48; units in ten-thousandths
parse_transaction_side(units_str) ==
    SideOf(InParentheses(strip(units_str)), Decimal(RemoveCommas(Unwrapped(strip(units_str))), 4))

\* lines 106-109, with the Decimal the string gave
AmountOf(in_parentheses, amount_value) ==
    [ok |-> amount_value.ok,
     value |-> IF in_parentheses THEN -amount_value.value ELSE amount_value.value]

\* lines 104-112; the amount in thousandths
ParseAmount(amount) ==
    AmountOf(InParentheses(strip(amount)), Decimal(RemoveCommas(Unwrapped(strip(amount))), 3))

\* lines 80-133, with what the fields of the row gave.  A date that is not
\* one and an empty ticker skip the row; a number that is not one raises
\* decimal.InvalidOperation, which is no ValueError and leaves the loop over
\* the rows of the file
ParsedRow(date, ticker, folio, nav, side, amount) ==
    IF ~date.ok \/ ticker = <<>> THEN [outcome |-> "skipped"]
    ELSE IF ~nav.ok \/ ~side.ok \/ ~amount.ok THEN [outcome |-> "raised"]
    ELSE [outcome |-> "parsed",
          dedup_key |-> <<strftime(date.date), ticker, folio,
                          round_units(side.units, 10), round_nav(nav.value, 10)>>,
          transaction |-> Transaction(date.date, ticker, folio, side.side,
                                      nav.value, side.units, amount.value)]

\* lines 79-133: one row
ParseRow(row) ==
    ParsedRow(strptime(row.date), strip(row.ticker), strip(row.folio),
              Decimal(RemoveCommas(row.nav), 5), parse_transaction_side(row.units),
              ParseAmount(row.amount))

\* lines 79-140: the rows of one file
RECURSIVE LoadRows(_, _)
RECURSIVE LoadRow(_, _, _)
\* lines 114-140: the row parsed, and then the rows after it
LoadRow(acc, r, rest) ==
    IF r.outcome = "raised" THEN acc
    ELSE IF r.outcome = "skipped" THEN LoadRows(acc, rest)
    ELSE IF r.dedup_key \in acc.seen_transactions THEN LoadRows(acc, rest)
    ELSE LoadRows([all_transactions |-> Append(acc.all_transactions, r.transaction),
                   seen_transactions |-> acc.seen_transactions \cup {r.dedup_key}],
                  rest)

LoadRows(acc, rows) ==
    IF rows = <<>> THEN acc
    ELSE LoadRow(acc, ParseRow(Head(rows)), Tail(rows))

\* lines 68-140: the files in the order of the scan; a file that is not
\* JSON is passed over
RECURSIVE LoadFiles(_, _, _)
LoadFiles(acc, out, order) ==
    IF order = <<>> THEN acc
    ELSE LET file == out[Head(order)]
         IN  LoadFiles(IF file.json THEN LoadRows(acc, file.data) ELSE acc, out, Tail(order))

\* lines 54-144
load_transactions(out, order) ==
    SortByDate(LoadFiles([all_transactions |-> <<>>, seen_transactions |-> {}], out, order).all_transactions)

\* lines 146-166
load_fund_type_overrides(file) ==
    IF ~file.exists THEN EmptyDict
    ELSE IF ~file.json THEN EmptyDict
    ELSE file.data

\* models.py, FIFOGain.to_dict: proceeds and cost_basis change their names;
\* a float holds each of the decimals of the model exactly enough for
\* str() to give its digits back
to_dict(g) ==
    [sell_date |-> g.sell_date, ticker |-> g.ticker, folio |-> g.folio,
     units |-> g.units, sell_nav |-> g.sell_nav, sale_consideration |-> g.proceeds,
     buy_date |-> g.buy_date, buy_nav |-> g.buy_nav, acquisition_cost |-> g.cost_basis,
     gain |-> g.gain, holding_days |-> g.holding_days, fund_type |-> g.fund_type,
     term |-> g.term, financial_year |-> g.financial_year]

\* lines 248-271: the two files as written (last_computed, which nothing
\* reads, is left out)
save_cached_gains(gains, out) ==
    [cache_file |-> JsonFile([i \in 1..Len(gains) |-> to_dict(gains[i])]),
     metadata_file |-> JsonFile([processed_file_ids |-> get_transaction_file_ids(out),
                                 total_gains |-> Len(gains)])]

(***************************************************************************)
(* capital_gains/classifier.py: the table of the process.                  *)
(***************************************************************************)
\* the rows of ISIN_TICKER_LINKS_DB
LinksRows ==
    << [Ticker |-> <<" ", "X">>, LargeCap |-> <<"7", "0", "%">>, MidCap |-> <<>>, SmallCap |-> <<>>, OtherCap |-> <<>>],
       [Ticker |-> <<" ">>, LargeCap |-> <<"7", "0", "%">>, MidCap |-> <<>>, SmallCap |-> <<>>, OtherCap |-> <<>>] >>

\* lines 105-117: the rows with a ticker, classified; a later row of a
\* ticker replaces an earlier one
RECURSIVE ClassifyRows(_, _)
ClassifyRows(mapping, rows) ==
    IF rows = <<>> THEN mapping
    ELSE LET row    == Head(rows)
             ticker == strip(row.Ticker)
         IN  IF ticker = <<>> THEN ClassifyRows(mapping, Tail(rows))
             ELSE ClassifyRows((ticker :> classify_fund_type(ticker, row.LargeCap, row.MidCap, row.SmallCap, row.OtherCap)) @@ mapping,
                               Tail(rows))

\* lines 84-120: the table is built from the rows by the first call of a
\* process and kept; for rows that do not change it is the same table at
\* every call
get_fund_type_mapping == ClassifyRows(EmptyDict, LinksRows)

(***************************************************************************)
(* capital_gains/service.py.                                               *)
(***************************************************************************)
\* lines 52-67: a FIFOGain from a dict of the cache
GainFromDict(g) ==
    FIFOGain(g.sell_date, g.ticker, g.folio, g.units, g.sell_nav, g.sale_consideration,
             g.buy_date, g.buy_nav, g.acquisition_cost, g.gain, g.holding_days,
             g.fund_type, g.term, g.financial_year)

\* lines 97-99: the gains are saved and returned
Cached(gains, written) ==
    [returned |-> gains, served |-> "recalculated", saved |-> TRUE,
     cache_file |-> written.cache_file, metadata_file |-> written.metadata_file]

\* lines 88-99, with the transactions loaded
Recalculated(txs, gains, cache, metadata) ==
    IF txs = <<>>
    THEN [returned |-> <<>>, served |-> "recalculated", saved |-> FALSE,
          cache_file |-> cache, metadata_file |-> metadata]
    ELSE Cached(gains, save_cached_gains(gains, outputs))

\* lines 77-99, with the files found in the given order: what is returned,
\* whether save_cached_gains was reached, and what is left on disk
recalculate_and_cache(order, cache, metadata) ==
    Recalculated(load_transactions(outputs, order),
                 calculate_fifo_gains(load_transactions(outputs, order), get_fund_type_mapping,
                                      load_fund_type_overrides(overrides_file)),
                 cache, metadata)

\* lines 45-69: the list of the cache file
FromCache ==
    [returned |-> [i \in 1..Len(cache_file.data) |-> GainFromDict(cache_file.data[i])],
     served |-> "cache", saved |-> FALSE,
     cache_file |-> cache_file, metadata_file |-> metadata_file]

\* the keys lines 52-67 read of every dict of the cache
GainFields ==
    {"sell_date", "ticker", "folio", "units", "sell_nav", "sale_consideration", "buy_date",
     "buy_nav", "acquisition_cost", "gain", "holding_days", "fund_type", "term", "financial_year"}

\* lines 46-69 and repository.py lines 226-246: how the reading of the
\* cache ends, with the exception it raises if it raises one
ReadCache(cache) ==
    IF ~cache.exists THEN "FileNotFoundError"
    ELSE IF ~cache.json THEN "JSONDecodeError"
    ELSE IF \E i \in 1..Len(cache.data) : ~(GainFields \subseteq DOMAIN cache.data[i]) THEN "KeyError"
    ELSE "read"

\* faulty variant of lines 26-75: force_recalculate is not looked at
get_capital_gains_Unforced(force_recalculate, order) ==
    IF ~is_cache_valid(cache_file, metadata_file, outputs) \/ ReadCache(cache_file) # "read"
    THEN recalculate_and_cache(order, cache_file, metadata_file)
    ELSE FromCache

\* faulty variant of lines 70-75: what the reading raises is not caught
get_capital_gains_Raising(force_recalculate, order) ==
    IF force_recalculate
    THEN recalculate_and_cache(order, NoFile, NoFile)
    ELSE IF ~is_cache_valid(cache_file, metadata_file, outputs)
    THEN recalculate_and_cache(order, cache_file, metadata_file)
    ELSE IF ReadCache(cache_file) # "read"
    THEN [returned |-> <<>>, served |-> "raised", saved |-> FALSE,
          cache_file |-> cache_file, metadata_file |-> metadata_file]
    ELSE FromCache

\* lines 26-75: a forced call deletes the two files first; a call that is
\* not recalculates when the cache is not valid or cannot be read
get_capital_gains(force_recalculate, order) ==
    IF force_recalculate \/ ~is_cache_valid(cache_file, metadata_file, outputs)
       \/ ReadCache(cache_file) # "read"
    THEN recalculate_and_cache(order,
                               IF force_recalculate THEN invalidate_cache(cache_file, metadata_file).cache_file
                               ELSE cache_file,
                               IF force_recalculate THEN invalidate_cache(cache_file, metadata_file).metadata_file
                               ELSE metadata_file)
    ELSE FromCache

GetCapitalGains(force_recalculate) ==
    /\ \E order \in ScanOrders(outputs) :
          \E r \in {get_capital_gains(force_recalculate, order)} :
              /\ cache_file' = r.cache_file
              /\ metadata_file' = r.metadata_file
              /\ last_op' = [op |-> "get_capital_gains", force_recalculate |-> force_recalculate,
                             returned |-> r.returned, served |-> r.served,
                             cache_before |-> cache_file, metadata_before |-> metadata_file,
                             cache_read |-> IF force_recalculate
                                               \/ ~is_cache_valid(cache_file, metadata_file, outputs)
                                            THEN "not read"
                                            ELSE ReadCache(cache_file)]
    /\ UNCHANGED <<fifoVars, threadVars, call, result, outputs, overrides_file>>

\* lines 41-47 and 70-72: the cache file is taken off the disk between
\* the check of line 41, which finds the cache valid, and the reading of
\* line 47, which raises FileNotFoundError
GetCapitalGainsCacheRemoved ==
    /\ is_cache_valid(cache_file, metadata_file, outputs)
    /\ \E order \in ScanOrders(outputs) :
          \E r \in {recalculate_and_cache(order, NoFile, metadata_file)} :
              /\ cache_file' = r.cache_file
              /\ metadata_file' = r.metadata_file
              /\ last_op' = [op |-> "get_capital_gains", force_recalculate |-> FALSE,
                             returned |-> r.returned, served |-> r.served,
                             cache_before |-> cache_file, metadata_before |-> metadata_file,
                             cache_read |-> ReadCache(NoFile)]
    /\ UNCHANGED <<fifoVars, threadVars, call, result, outputs, overrides_file>>

\* a cache file of dicts without the keys of lines 52-67, as another
\* version of the program or another hand wrote it
OtherSchemaCacheFile == JsonFile(<< [ticker |-> <<"X">>, gain |-> 0] >>)

\* the cache file on disk is replaced by one of the other schema
ReplaceCacheFile ==
    /\ cache_file.exists
    /\ cache_file # OtherSchemaCacheFile
    /\ cache_file' = OtherSchemaCacheFile
    /\ last_op' = [op |-> "replace_cache_file"]
    /\ UNCHANGED <<fifoVars, threadVars, call, result, outputs, overrides_file, metadata_file>>

\* the process dies in get_capital_gains: between the two unlinks of
\* invalidate_cache, or in save_cached_gains while it writes the cache
\* file, before it opens the metadata file, or while it writes that
GetCapitalGainsKilled(force_recalculate) ==
    /\ \E order \in ScanOrders(outputs) :
          \E r \in {get_capital_gains(force_recalculate, order)} :
              LET before == IF force_recalculate THEN invalidate_cache(cache_file, metadata_file)
                            ELSE [cache_file |-> cache_file, metadata_file |-> metadata_file]
              IN  \/ /\ force_recalculate /\ cache_file.exists /\ metadata_file.exists
                     /\ cache_file' = NoFile
                     /\ metadata_file' = metadata_file
                  \/ /\ r.saved
                     /\ cache_file' = Truncated
                     /\ metadata_file' = before.metadata_file
                  \/ /\ r.saved
                     /\ cache_file' = r.cache_file
                     /\ metadata_file' = before.metadata_file
                  \/ /\ r.saved
                     /\ cache_file' = r.cache_file
                     /\ metadata_file' = Truncated
    /\ last_op' = [op |-> "killed"]
    /\ UNCHANGED <<fifoVars, threadVars, call, result, outputs, overrides_file>>

\* cache_manager.is_cache_valid, called on its own
IsCacheValid ==
    /\ last_op' = [op |-> "is_cache_valid", returned |-> is_cache_valid(cache_file, metadata_file, outputs)]
    /\ UNCHANGED <<fifoVars, threadVars, call, result, outputs, overrides_file, cache_file, metadata_file>>

\* faulty variant of repository.py lines 179 and 207: unknown passes
ValidFundType_WithUnknown(fund_type) == fund_type \in {"equity", "debt", "unknown"}

\* repository.py lines 179 and 207: fund_type in ['equity', 'debt']
ValidFundType(fund_type) == fund_type \in {"equity", "debt"}

\* repository.py lines 168-193: a type that is neither equity nor debt
\* raises ValueError before anything is read or written
save_fund_type_override(ticker, fund_type, file) ==
    IF ~ValidFundType(fund_type)
    THEN [raised |-> TRUE, overrides_file |-> file]
    ELSE [raised |-> FALSE,
          overrides_file |-> JsonFile((ticker :> fund_type) @@ load_fund_type_overrides(file))]

\* faulty variant of repository.py lines 206-208: the entries that are
\* valid are written before the error is raised
save_fund_type_overrides_batch_Partial(overrides_dict, file) ==
    LET valid == {t \in DOMAIN overrides_dict : ValidFundType(overrides_dict[t])}
    IN  [raised |-> valid # DOMAIN overrides_dict,
         overrides_file |-> IF valid = {} THEN file
                            ELSE JsonFile([t \in valid |-> overrides_dict[t]] @@ load_fund_type_overrides(file))]

\* repository.py lines 195-224: all the entries are validated first, and
\* then the file is written once
save_fund_type_overrides_batch(overrides_dict, file) ==
    IF \E t \in DOMAIN overrides_dict : ~ValidFundType(overrides_dict[t])
    THEN [raised |-> TRUE, overrides_file |-> file]
    ELSE [raised |-> FALSE,
          overrides_file |-> JsonFile(overrides_dict @@ load_fund_type_overrides(file))]

\* service.py lines 101-110: the error of the repository leaves the method
\* before invalidate_cache is reached
SaveFundTypeOverride(ticker, fund_type) ==
    /\ \E r \in {save_fund_type_override(ticker, fund_type, overrides_file)} :
          /\ overrides_file' = r.overrides_file
          /\ IF r.raised
             THEN UNCHANGED <<cache_file, metadata_file>>
             ELSE /\ cache_file' = invalidate_cache(cache_file, metadata_file).cache_file
                  /\ metadata_file' = invalidate_cache(cache_file, metadata_file).metadata_file
          /\ last_op' = [op |-> "save_fund_type_override", raised |-> r.raised,
                         overrides |-> (ticker :> fund_type)]
    /\ UNCHANGED <<fifoVars, threadVars, call, result, outputs>>

\* service.py lines 112-120
SaveFundTypeOverridesBatch(overrides) ==
    /\ \E r \in {save_fund_type_overrides_batch(overrides, overrides_file)} :
          /\ overrides_file' = r.overrides_file
          /\ IF r.raised
             THEN UNCHANGED <<cache_file, metadata_file>>
             ELSE /\ cache_file' = invalidate_cache(cache_file, metadata_file).cache_file
                  /\ metadata_file' = invalidate_cache(cache_file, metadata_file).metadata_file
          /\ last_op' = [op |-> "save_fund_type_overrides_batch", raised |-> r.raised,
                         overrides |-> overrides]
    /\ UNCHANGED <<fifoVars, threadVars, call, result, outputs>>

\* repository.py lines 273-295: the latest modification time, or the time
\* of the call when there is no file
GetLastUpdated ==
    /\ LET mtimes == {outputs[p].mtime : p \in {q \in TransactionPaths : outputs[q].exists}}
       IN  last_op' = [op |-> "get_last_updated",
                       returned |-> IF mtimes = {} THEN "now"
                                    ELSE CHOOSE m \in mtimes : \A n \in mtimes : n <= m]
    /\ UNCHANGED <<fifoVars, threadVars, call, result, outputs, overrides_file, cache_file, metadata_file>>

(***************************************************************************)
(* The transaction files come and go.                                      *)
(***************************************************************************)
\* date, ticker, folio, nav, units, amount of a row
Row(date, ticker, folio, nav, units, amount) ==
    [date |-> date, ticker |-> ticker, folio |-> folio, nav |-> nav, units |-> units, amount |-> amount]

\* a buy of 100 at 10 and the sale of 150 at 15 two years later
FileOne ==
    << Row(Date(2022, 1, 1), <<"X">>, <<"F">>, <<"1", "0">>, <<"1", "0", "0">>,
           <<"1", ",", "0", "0", "0", ".", "0", "0">>),
       Row(Date(2024, 1, 1), <<"X">>, <<"F">>, <<"1", "5">>, <<"(", "1", "5", "0", ")">>,
           <<"2", ",", "2", "5", "0">>) >>

\* the same buy with another amount, a buy of 100 at 12, a row without a
\* ticker, a row of the 13th month, a row whose NAV is no number, and a row
\* after it
FileTwo ==
    << Row(Date(2022, 1, 1), <<"X", " ">>, <<"F">>, <<"1", "0", ".", "0", "0">>, <<"1", "0", "0", ".", "0">>,
           <<"1", "0", "0", "0", ".", "0", "5">>),
       Row(Date(2023, 3, 31), <<"X">>, <<"F">>, <<"1", "2">>, <<"1", "0", "0">>,
           <<"(", "1", "2", "0", "0", ")">>),
       Row(Date(2023, 3, 31), <<" ">>, <<"F">>, <<"1", "2">>, <<"1", "0", "0">>, <<"1", "2", "0", "0">>),
       Row(Date(2023, 13, 1), <<"X">>, <<"F">>, <<"1", "2">>, <<"1", "0", "0">>, <<"1", "2", "0", "0">>),
       Row(Date(2023, 4, 1), <<"X">>, <<"F">>, <<"n", "/", "a">>, <<"5", "0">>, <<"6", "0", "0">>),
       Row(Date(2023, 4, 2), <<"X">>, <<"F">>, <<"1", "2">>, <<"-", "5", "0">>, <<"6", "0", "0">>) >>

TransactionFileContents == {FileOne, FileTwo}

\* pdf_extractor.extract_transactions moves a new file into the directory
AddTransactionFile(p, rows) ==
    /\ ~outputs[p].exists
    /\ outputs' = [outputs EXCEPT ![p] = TransactionFile(rows, 1)]
    /\ last_op' = [op |-> "add_file"]
    /\ UNCHANGED <<fifoVars, threadVars, call, result, overrides_file, cache_file, metadata_file>>

\* a file is taken out of the directory
RemoveTransactionFile(p) ==
    /\ outputs[p].exists
    /\ outputs' = [outputs EXCEPT ![p] = NoFile]
    /\ last_op' = [op |-> "remove_file"]
    /\ UNCHANGED <<fifoVars, threadVars, call, result, overrides_file, cache_file, metadata_file>>

\* a file gets other contents under the name it has
RewriteTransactionFile(p, rows) ==
    /\ outputs[p].exists
    /\ outputs[p].data # rows
    /\ outputs' = [outputs EXCEPT ![p].data = rows]
    /\ last_op' = [op |-> "rewrite_file", valid_before |-> is_cache_valid(cache_file, metadata_file, outputs)]
    /\ UNCHANGED <<fifoVars, threadVars, call, result, overrides_file, cache_file, metadata_file>>

\* a file gets a later modification time
TouchTransactionFile(p) ==
    /\ outputs[p].exists
    /\ outputs[p].mtime < MaxMtime
    /\ outputs' = [outputs EXCEPT ![p].mtime = @ + 1]
    /\ last_op' = [op |-> "touch_file", valid_before |-> is_cache_valid(cache_file, metadata_file, outputs)]
    /\ UNCHANGED <<fifoVars, threadVars, call, result, overrides_file, cache_file, metadata_file>>

OverrideTypes == {"equity", "debt", "unknown"}

BatchOverrides ==
    { (TickerX :> "debt"), (TickerX :> "equity") @@ (TickerY :> "unknown") }

InitService ==
    /\ FifoIdle
    /\ PureIdle

\* a transaction file at one of the paths is added, removed or rewritten
FilesChange(paths) ==
    \/ \E p \in paths, rows \in TransactionFileContents : AddTransactionFile(p, rows)
    \/ \E p \in paths : RemoveTransactionFile(p)
    \/ \E p \in paths, rows \in TransactionFileContents : RewriteTransactionFile(p, rows)

NextService ==
    \/ \E force_recalculate \in BOOLEAN : GetCapitalGains(force_recalculate)
    \/ \E fund_type \in OverrideTypes : SaveFundTypeOverride(TickerX, fund_type)
    \/ \E overrides \in BatchOverrides : SaveFundTypeOverridesBatch(overrides)
    \/ FilesChange(TransactionPaths)

SpecService == InitService /\ [][NextService]_vars

\* the paths of one directory
OneDirectory == {p \in TransactionPaths : p.date_dir = "2024-01-15"}

\* the cache against one directory: the files also get later modification
\* times, the process can die while it writes, and the validity of the
\* cache and the latest time are asked for
NextCache ==
    \/ IsCacheValid
    \/ GetLastUpdated
    \/ \E force_recalculate \in BOOLEAN : GetCapitalGains(force_recalculate)
    \/ \E force_recalculate \in BOOLEAN : GetCapitalGainsKilled(force_recalculate)
    \/ GetCapitalGainsCacheRemoved
    \/ ReplaceCacheFile
    \/ FilesChange(OneDirectory)
    \/ \E p \in OneDirectory : TouchTransactionFile(p)

SpecCache == InitService /\ [][NextCache]_vars

\* the rows of the file of each id: a file of an id always has the same
\* rows
RowsOfId(p) == IF p.file_id = "a1b2" THEN FileOne ELSE FileTwo

\* the files of one directory come and go, each with the rows of its id
FilesComeAndGo ==
    \/ \E p \in OneDirectory : AddTransactionFile(p, RowsOfId(p))
    \/ \E p \in OneDirectory : RemoveTransactionFile(p)

\* the gains are asked for while the files come and go
NextNoCrash ==
    \/ \E force_recalculate \in BOOLEAN : GetCapitalGains(force_recalculate)
    \/ FilesComeAndGo

SpecNoCrash == InitService /\ [][NextNoCrash]_vars

\* the same, and the process can die while it writes the cache
NextCrash ==
    \/ \E force_recalculate \in BOOLEAN : GetCapitalGains(force_recalculate)
    \/ \E force_recalculate \in BOOLEAN : GetCapitalGainsKilled(force_recalculate)
    \/ FilesComeAndGo

SpecCrash == InitService /\ [][NextCrash]_vars

(***************************************************************************)
(* Properties of calculate_fifo_gains.                                     *)
(***************************************************************************)
\* the indices of the gain records emitted for transaction t of bucket b
GainsOf(b, t) == {i \in 1..Len(match_log) : match_log[i].bucket = b /\ match_log[i].tx = t}

\* the indices of the gain records emitted in bucket b
GainsOfBucket(b) == {i \in 1..Len(match_log) : match_log[i].bucket = b}

RECURSIVE SumOver(_, _)
SumOver(f, S) ==
    IF S = {} THEN 0
    ELSE LET x == CHOOSE y \in S : TRUE IN f[x] + SumOver(f, S \ {x})

GainUnits(S) == SumOver([i \in 1..Len(all_gains) |-> all_gains[i].units], S)

\* units of the gain records emitted against lot k before gain record i
ConsumedBefore(k, i) ==
    GainUnits({j \in 1..(i - 1) : match_log[j].lot.id = k})

\* the current sell has left its matching loop
SellFinished ==
    \/ pc = "match" /\ ~(units_to_match > 0 /\ fifo_queue # <<>>)
    \/ pc = "txs" /\ tx_idx > 0 /\ CurrentTx.side = "sell"

\* units of the buys of bucket b among its first n transactions
BoughtUpTo(b, n) ==
    SumOver([t \in 1..Len(buckets[b].txs) |-> buckets[b].txs[t].units],
            {t \in 1..n : buckets[b].txs[t].side = "buy"})

\* number of transactions the loops have taken so far
TakenSoFar ==
    SumOver([b \in 1..Len(buckets) |-> Len(buckets[b].txs)], 1..(bucket_idx - 1))
    + (IF bucket_idx > 0 THEN tx_idx ELSE 0)

\* units, cost, proceeds and gain of a gain record
Figures(g) == <<g.units, g.cost_basis, g.proceeds, g.gain>>

\* the example: 100 @ 10, then 100 @ 12, then a sell of 150 @ 15
ExampleTxs ==
    << Transaction(Date(2022, 1, 1), TickerX, FolioF, "buy", 1000000, 1000000, -1000000),
       Transaction(Date(2023, 3, 31), TickerX, FolioF, "buy", 1200000, 1000000, -1200055),
       Transaction(Date(2024, 1, 1), TickerX, FolioF, "sell", 1500000, -1500000, 2250000) >>

\* C1: lots are consumed strictly oldest first.  Whenever a gain record has
\* been emitted against a lot, every lot created earlier in the same bucket
\* had by then been consumed to its full original units, and no lot older
\* than a matched lot of the current bucket is in the queue.  On the example
\* the result is exactly: 100 units (cost 1000, proceeds 1500, gain 500),
\* then 50 units (cost 600, proceeds 750, gain 150).
C1_OldestFirst ==
    /\ \A i \in 1..Len(match_log) :
          \A k \in 1..(match_log[i].lot.id - 1) :
              created_lots[k].bucket = match_log[i].bucket
                  => ConsumedBefore(k, i) = created_lots[k].lot.original_units
    /\ \A i \in GainsOfBucket(bucket_idx) :
          \A q \in 1..Len(fifo_queue) : fifo_queue[q].id >= match_log[i].lot.id
    /\ (transactions = ExampleTxs /\ pc = "done")
          => /\ Len(all_gains) = 2
             /\ Figures(all_gains[1]) = <<100000, 100000, 150000, 50000>>
             /\ Figures(all_gains[2]) = <<50000, 60000, 75000, 15000>>

\* the example has run to its end, and a second lot was reached
C1_Witness ==
    /\ transactions = ExampleTxs
    /\ pc = "done"
    /\ Len(match_log) = 2
    /\ match_log[2].lot.id = 2

\* C2: conservation of units.  When a sell has left its loop, the units of its
\* gain records sum to min(sell units, units left in the queue when the sell
\* started); and at every point the units of the gain records of a bucket do
\* not exceed the units of the buys of that bucket processed so far.
C2_Conservation ==
    /\ SellFinished
          => GainUnits(GainsOf(bucket_idx, tx_idx)) = Min(CurrentTx.units, QueueUnits(sell_queue))
    /\ \A b \in 1..bucket_idx :
          GainUnits(GainsOfBucket(b))
              <= BoughtUpTo(b, IF b = bucket_idx THEN tx_idx ELSE Len(buckets[b].txs))

\* a sell that took units from two lots and could not be matched in full
C2_Witness ==
    /\ SellFinished
    /\ Cardinality(GainsOf(bucket_idx, tx_idx)) = 2
    /\ 0 < QueueUnits(sell_queue)
    /\ QueueUnits(sell_queue) < CurrentTx.units

\* C3: oversell.  A sell of more units than the queue holds gets gain records
\* for the units the queue held and no more, none at all if the queue was
\* empty, and a warning for the remainder; the loops never stop before the
\* return, and at the return every transaction of every bucket has been taken.
C3_OversellSafety ==
    /\ (SellFinished /\ CurrentTx.units > QueueUnits(sell_queue))
          => /\ GainUnits(GainsOf(bucket_idx, tx_idx)) = QueueUnits(sell_queue)
             /\ sell_queue = <<>> => GainsOf(bucket_idx, tx_idx) = {}
             /\ units_to_match = CurrentTx.units - QueueUnits(sell_queue)
             /\ pc = "txs" =>
                   /\ warnings # <<>>
                   /\ warnings[Len(warnings)].units = units_to_match
    /\ pc \in {"buckets", "txs", "match"} => ENABLED LoopStep
    /\ pc = "done" => TakenSoFar = Len(transactions)

\* the first transaction of the first bucket was a sell with nothing to match,
\* it was warned about, and a later sell of that bucket and a second bucket
\* were still processed
C3_Witness ==
    /\ pc = "done"
    /\ Len(buckets) = 2
    /\ buckets[1].txs[1].side = "sell"
    /\ GainsOf(1, 1) = {}
    /\ warnings # <<>>
    /\ \E i \in GainsOfBucket(1) : match_log[i].tx > 1

\* the buy a lot was created from
BuyOf(lot) == buckets[created_lots[lot.id].bucket].txs[created_lots[lot.id].tx]

\* the step consumed a lot that was untouched, in one go
WholeLot(i) ==
    /\ all_gains[i].units = match_log[i].lot.units_left
    /\ all_gains[i].units = match_log[i].lot.original_units

\* C4: whole-lot cost preservation.  A match that takes a whole, untouched
\* lot reports the lot's original_total_cost, which is the buy's amount in
\* absolute value rounded half-up to cents; every other match reports
\* matched x cost_per_unit rounded half-up to cents.
C4_WholeLotCost ==
    \A i \in 1..Len(all_gains) :
        LET lot == match_log[i].lot
        IN  IF WholeLot(i)
            THEN /\ all_gains[i].cost_basis = lot.original_total_cost
                 /\ all_gains[i].cost_basis = ROUND_HALF_UP(Abs(BuyOf(lot).amount), 10)
            ELSE all_gains[i].cost_basis = round_money_product(all_gains[i].units, lot.cost_per_unit)

\* a whole lot was taken whose recorded amount is not units x NAV, and two
\* other matches took part of a lot and the rest of a lot
C4_Witness ==
    /\ \E i \in 1..Len(all_gains) :
          /\ WholeLot(i)
          /\ all_gains[i].cost_basis # round_money_product(all_gains[i].units, match_log[i].lot.cost_per_unit)
    /\ \E i \in 1..Len(all_gains) :
          /\ ~WholeLot(i)
          /\ all_gains[i].units < match_log[i].lot.units_left
    /\ \E i \in 1..Len(all_gains) :
          /\ ~WholeLot(i)
          /\ all_gains[i].units = match_log[i].lot.units_left

\* the sell gain record i was emitted for
SellOf(i) == buckets[match_log[i].bucket].txs[match_log[i].tx]

\* the type the claim gives a ticker: the override if there is one, else the
\* type of the reference table, else unknown
ClaimedFundType(ticker) ==
    IF ticker \in DOMAIN manual_overrides THEN manual_overrides[ticker]
    ELSE IF ticker \in DOMAIN fund_type_mapping THEN fund_type_mapping[ticker]
    ELSE "unknown"

\* C8: override precedence.  The fund_type of every gain record is the manual
\* override of the sell's ticker if there is one, else the type of the
\* reference table, else unknown; and the term follows that type: the equity
\* rule on the holding days for equity, the debt rule on the buy and sell
\* dates for debt.  A fund the table calls debt, overridden to equity, bought
\* 2023-03-31 and sold 366 days later is Long-term.
C8_OverridePrecedence ==
    \A i \in 1..Len(all_gains) :
        LET g    == all_gains[i]
            sell == SellOf(i)
            lot  == match_log[i].lot
        IN  /\ g.fund_type = ClaimedFundType(sell.ticker)
            /\ g.fund_type = "equity" =>
                  /\ g.term = get_equity_fund_term(g.holding_days)
                  /\ g.term = IF g.holding_days > 365 THEN "Long-term" ELSE "Short-term"
            /\ g.fund_type = "debt" => g.term = get_debt_fund_term(lot.date, sell.date)
            /\ (/\ DictGet(fund_type_mapping, sell.ticker, "") = "debt"
                 /\ DictGet(manual_overrides, sell.ticker, "") = "equity"
                 /\ lot.date = Date(2023, 3, 31)
                 /\ sell.date = Date(2024, 3, 31))
                  => (g.fund_type = "equity" /\ g.holding_days = 366 /\ g.term = "Long-term")

\* a gain record of a fund that the table calls debt and the override calls
\* equity: it is Long-term by the equity rule where the debt rule gives
\* Short-term
C8_Witness ==
    \E i \in 1..Len(all_gains) :
        /\ DictGet(fund_type_mapping, SellOf(i).ticker, "") = "debt"
        /\ DictGet(manual_overrides, SellOf(i).ticker, "") = "equity"
        /\ all_gains[i].fund_type = "equity"
        /\ all_gains[i].term = "Long-term"
        /\ get_debt_fund_term(match_log[i].lot.date, SellOf(i).date) = "Short-term"

(***************************************************************************)
(* Properties of the term rules.                                           *)
(***************************************************************************)
Returned(fn) == call.fn = fn /\ result # NoResult

\* C5: get_equity_fund_term returns Long-term exactly for more than 365 days
\* and Short-term otherwise; 365 days is Short-term, 366 days is Long-term.
C5_EquityTerm ==
    Returned("get_equity_fund_term") =>
        /\ result = "Long-term" <=> call.holding_days > 365
        /\ result = "Short-term" <=> call.holding_days <= 365
        /\ call.holding_days = 365 => result = "Short-term"
        /\ call.holding_days = 366 => result = "Long-term"

\* the rule has returned Short-term for exactly 365 days
C5_Witness ==
    /\ Returned("get_equity_fund_term")
    /\ call.holding_days = 365
    /\ result = "Short-term"

\* d is the calendar date y-m-d0 or a later one
OnOrAfter(d, y, m, d0) ==
    \/ d.year > y
    \/ d.year = y /\ d.month > m
    \/ d.year = y /\ d.month = m /\ d.day >= d0

\* C6: get_debt_fund_term returns Short-term for every buy on or after
\* 2023-04-01; for an earlier buy it returns Long-term exactly when the
\* holding period exceeds 730 days.  A buy of 2023-03-31 sold after 730 days
\* (2025-03-30) is Short-term, after 731 days (2025-03-31) Long-term.
C6_DebtTerm ==
    Returned("get_debt_fund_term") =>
        /\ result \in {"Short-term", "Long-term"}
        /\ OnOrAfter(call.buy_date, 2023, 4, 1) => result = "Short-term"
        /\ ~OnOrAfter(call.buy_date, 2023, 4, 1) =>
              (result = "Long-term" <=> days_between(call.sell_date, call.buy_date) > 730)
        /\ (call.buy_date = Date(2023, 3, 31) /\ call.sell_date = Date(2025, 3, 30))
              => (result = "Short-term" /\ days_between(call.sell_date, call.buy_date) = 730)
        /\ (call.buy_date = Date(2023, 3, 31) /\ call.sell_date = Date(2025, 3, 31))
              => result = "Long-term"
        /\ (call.buy_date = Date(2022, 1, 1) /\ call.sell_date = Date(2024, 1, 1))
              => (result = "Short-term" /\ days_between(call.sell_date, call.buy_date) = 730)

\* a buy on the day of the regime change held for more than 730 days has
\* been given Short-term
C6_Witness ==
    /\ Returned("get_debt_fund_term")
    /\ call.buy_date = Date(2023, 4, 1)
    /\ days_between(call.sell_date, call.buy_date) > 730
    /\ result = "Short-term"

(***************************************************************************)
(* Properties of classify_fund_type.                                       *)
(***************************************************************************)
\* the ticker contains "arbi" in any mix of upper and lower case
HasArbi(ticker) ==
    \E i \in 1..(Len(ticker) - 3) :
        /\ ticker[i] \in {"a", "A"}
        /\ ticker[i + 1] \in {"r", "R"}
        /\ ticker[i + 2] \in {"b", "B"}
        /\ ticker[i + 3] \in {"i", "I"}

\* the field holds no data: it has no character other than blanks
IsEmptyField(field) == \A i \in 1..Len(field) : field[i] = " "

CallCaps == <<call.large_cap, call.mid_cap, call.small_cap, call.other_cap>>

CallPctSum ==
    parse_percentage(call.large_cap) + parse_percentage(call.mid_cap)
    + parse_percentage(call.small_cap) + parse_percentage(call.other_cap)

\* C7: classify_fund_type decides in a fixed order: a ticker containing
\* "arbi" (any case) is equity whatever the percentages; otherwise four empty
\* fields (empty once stripped, as the code tests it) give unknown; otherwise
\* the result is equity exactly when the parsed percentages, empty and
\* unparseable fields counting 0, sum to at least 65.0, else debt.  A sum of
\* exactly 65.0 is equity, 64.99 is debt, four times "0%" is debt.
C7_ClassifyOrder ==
    Returned("classify_fund_type") =>
        /\ result =
              IF HasArbi(call.ticker) THEN "equity"
              ELSE IF \A i \in 1..4 : IsEmptyField(CallCaps[i]) THEN "unknown"
              ELSE IF CallPctSum >= 65000 THEN "equity"
              ELSE "debt"
        /\ (~HasArbi(call.ticker)
             /\ CallCaps = << <<"6", "4", ".", "9", "9", "%">>, <<"0", ".", "0", "1">>, <<>>, <<>> >>)
              => (result = "equity" /\ CallPctSum = 65000)
        /\ (~HasArbi(call.ticker)
             /\ CallCaps = << <<"6", "5", "%">>, <<>>, <<>>, <<"x", "%">> >>)
              => (result = "equity" /\ CallPctSum = 65000)
        /\ (~HasArbi(call.ticker)
             /\ CallCaps = << <<"6", "4", ".", "9", "9", "%">>, <<>>, <<>>, <<>> >>)
              => (result = "debt" /\ CallPctSum = 64990)
        /\ (~HasArbi(call.ticker)
             /\ CallCaps = << <<"0", "%">>, <<"0", "%">>, <<"0", "%">>, <<"0", "%">> >>)
              => result = "debt"
        /\ (call.ticker = <<"A", "R", "B", "I">> /\ CallCaps = << <<>>, <<>>, <<>>, <<>> >>)
              => result = "equity"

\* a fund without "arbi" in its ticker whose percentages sum to exactly 65.0
\* has been classified as equity
C7_Witness ==
    /\ Returned("classify_fund_type")
    /\ ~HasArbi(call.ticker)
    /\ CallPctSum = 65000
    /\ result = "equity"

(***************************************************************************)
(* Properties of the cache.                                                *)
(***************************************************************************)
\* the list is the sorted list of the ids of the transaction files present:
\* it is in order, and it holds each id as many times as there are files
\* of that id
IsSortedListOfPresentIds(file_ids) ==
    /\ \A i \in 1..Len(file_ids) : \E k \in 1..Len(FileIdsInOrder) : FileIdsInOrder[k] = file_ids[i]
    /\ \A i \in 1..(Len(file_ids) - 1) : IdRank(file_ids[i]) <= IdRank(file_ids[i + 1])
    /\ \A k \in 1..Len(FileIdsInOrder) :
          Cardinality({i \in 1..Len(file_ids) : file_ids[i] = FileIdsInOrder[k]})
          = Cardinality({p \in TransactionPaths : outputs[p].exists /\ p.file_id = FileIdsInOrder[k]})

\* C9: is_cache_valid() returns true exactly when the cache file and the
\* metadata file both exist, the metadata can be read, and its
\* processed_file_ids is the sorted list of the ids of the transaction files
\* present; otherwise it returns false, and it never raises.  Nothing else
\* counts: after a transaction file got other contents or a later
\* modification time under the name it had, the cache is valid if and only
\* if it was before.
C9_CacheValidity ==
    /\ last_op.op = "is_cache_valid" =>
          /\ last_op.returned \in BOOLEAN
          /\ last_op.returned <=>
                (/\ cache_file.exists
                 /\ metadata_file.exists
                 /\ metadata_file.json
                 /\ IsSortedListOfPresentIds(metadata_file.data.processed_file_ids))
    /\ last_op.op \in {"rewrite_file", "touch_file"} =>
          is_cache_valid(cache_file, metadata_file, outputs) = last_op.valid_before

\* is_cache_valid() returned true with two transaction files present
C9_Witness ==
    /\ last_op.op = "is_cache_valid"
    /\ last_op.returned = TRUE
    /\ Cardinality({p \in TransactionPaths : outputs[p].exists}) = 2

\* the set of the ids of a list
IdSet(file_ids) == {file_ids[i] : i \in 1..Len(file_ids)}

\* what a recomputation from the files present can return: the gains of
\* the transactions loaded in one of the orders of the scan
RecomputedGains ==
    {calculate_fifo_gains(load_transactions(outputs, order), get_fund_type_mapping,
                          load_fund_type_overrides(overrides_file)) : order \in ScanOrders(outputs)}

\* get_capital_gains(False) was called when the metadata recorded a set of
\* file ids other than the set of the ids of the files present
CalledAfterFileSetChange ==
    /\ last_op.op = "get_capital_gains"
    /\ ~last_op.force_recalculate
    /\ last_op.metadata_before.exists
    /\ last_op.metadata_before.json
    /\ IdSet(last_op.metadata_before.data.processed_file_ids) # IdSet(get_transaction_file_ids(outputs))

\* C10: when get_capital_gains(force_recalculate=False) is called while the
\* set of the ids of the transaction files present differs from the set the
\* metadata recorded at the last recomputation, the call recomputes the gains
\* from the files present and does not return the cached list.
C10_InvalidationOnFileSetChange ==
    CalledAfterFileSetChange =>
        /\ last_op.served = "recalculated"
        /\ last_op.returned \in RecomputedGains

\* such a call, made with a cached list of gains on disk after a file was
\* added, returned other gains than the cached ones
C10_Witness ==
    /\ CalledAfterFileSetChange
    /\ last_op.cache_before.exists
    /\ last_op.cache_before.json
    /\ last_op.cache_before.data # <<>>
    /\ last_op.returned # <<>>
    /\ last_op.returned # [i \in 1..Len(last_op.cache_before.data) |-> GainFromDict(last_op.cache_before.data[i])]
    /\ Cardinality(IdSet(last_op.metadata_before.data.processed_file_ids)) < Cardinality(IdSet(get_transaction_file_ids(outputs)))

(***************************************************************************)
(* Properties of the overrides.                                            *)
(***************************************************************************)
\* the date of the text strftime gave
DateOf(text) == Date(text[1], text[2], text[3])

\* an override was saved: the last operation was a save that did not raise
OverrideSaved ==
    /\ last_op.op \in {"save_fund_type_override", "save_fund_type_overrides_batch"}
    /\ ~last_op.raised

\* the gains carry, for every ticker of the map, the type of the map and
\* the term that type gives for the dates of the record
ReflectOverrides(gains, overrides) ==
    \A i \in 1..Len(gains) :
        gains[i].ticker \in DOMAIN overrides =>
            /\ gains[i].fund_type = overrides[gains[i].ticker]
            /\ gains[i].term = TermFor(overrides[gains[i].ticker], DateOf(gains[i].buy_date),
                                       DateOf(gains[i].sell_date))

\* a save that did not raise has left its entries in the override store and
\* neither file of the cache on disk, so that is_cache_valid() is false
C11_SavedAndInvalidated ==
    OverrideSaved =>
        /\ \A t \in DOMAIN last_op.overrides :
               /\ t \in DOMAIN load_fund_type_overrides(overrides_file)
               /\ load_fund_type_overrides(overrides_file)[t] = last_op.overrides[t]
        /\ ~cache_file.exists
        /\ ~metadata_file.exists
        /\ ~is_cache_valid(cache_file, metadata_file, outputs)

\* from a save of an override on, the cache file stays off the disk until
\* get_capital_gains is called, and a get_capital_gains(False) that comes
\* right after the save recomputes
C11_AbsentUntilNextCall ==
    /\ (~cache_file.exists /\ last_op'.op # "get_capital_gains") => ~cache_file'.exists
    /\ (OverrideSaved /\ last_op'.op = "get_capital_gains" /\ ~last_op'.force_recalculate) =>
          /\ ~last_op'.cache_before.exists
          /\ last_op'.served = "recalculated"

\* get_capital_gains(False) called while the cache file is not on disk
\* recomputes: what it returns is the gains of the files present under the
\* overrides of the store, with the types and the terms these give
C11_NextCallRecomputes ==
    (/\ last_op.op = "get_capital_gains"
     /\ ~last_op.force_recalculate
     /\ ~last_op.cache_before.exists) =>
        /\ last_op.served = "recalculated"
        /\ last_op.returned \in RecomputedGains
        /\ ReflectOverrides(last_op.returned, load_fund_type_overrides(overrides_file))

\* C11: every save_fund_type_override and save_fund_type_overrides_batch
\* that succeeds persists the overrides and then invalidates the cache:
\* right after it is_cache_valid() is false, and the next
\* get_capital_gains(False) recomputes and returns gains whose fund_type and
\* term for the overridden tickers are those of the new override, never the
\* gains cached before the override was written.
C11_OverrideInvalidates ==
    /\ []C11_SavedAndInvalidated
    /\ []C11_NextCallRecomputes
    /\ [][C11_AbsentUntilNextCall]_vars

\* get_capital_gains(False) found no cache and returned a Short-term debt
\* gain for a ticker the reference table calls equity and the override
\* store calls debt
C11_Witness ==
    /\ last_op.op = "get_capital_gains"
    /\ ~last_op.force_recalculate
    /\ ~last_op.cache_before.exists
    /\ get_fund_type_mapping[TickerX] = "equity"
    /\ load_fund_type_overrides(overrides_file) = (TickerX :> "debt")
    /\ \E i \in 1..Len(last_op.returned) :
          /\ last_op.returned[i].ticker = TickerX
          /\ last_op.returned[i].fund_type = "debt"
          /\ last_op.returned[i].term = "Short-term"
          /\ get_equity_fund_term(last_op.returned[i].holding_days) = "Long-term"

\* the last operation was a save of overrides of which one at least is
\* neither equity nor debt
InvalidOverrideGiven ==
    /\ last_op.op \in {"save_fund_type_override", "save_fund_type_overrides_batch"}
    /\ \E t \in DOMAIN last_op.overrides : last_op.overrides[t] \notin {"equity", "debt"}

\* a save given an invalid type fails with the validation error
C12_InvalidRaises == InvalidOverrideGiven => last_op.raised

\* a save that fails leaves the override store, the cache file and the
\* metadata file as they were
C12_RaisedChangesNothing ==
    (/\ last_op'.op \in {"save_fund_type_override", "save_fund_type_overrides_batch"}
     /\ last_op'.raised) =>
        UNCHANGED <<overrides_file, cache_file, metadata_file, outputs>>

\* C12: save_fund_type_override with a type other than equity or debt
\* (unknown included) and save_fund_type_overrides_batch with a map of which
\* one value at least is not equity or debt fail with a validation error;
\* the override store is as before, no entry of the batch being persisted,
\* and the cache and its metadata are not deleted.
C12_InvalidOverrideRejected ==
    /\ []C12_InvalidRaises
    /\ [][C12_RaisedChangesNothing]_vars

\* a batch with a valid entry for a ticker and an invalid one for another
\* was rejected: the store still holds the other type for the first
\* ticker, and the cache is on disk and valid
C12_Witness ==
    /\ last_op.op = "save_fund_type_overrides_batch"
    /\ last_op.raised
    /\ last_op.overrides[TickerX] = "equity"
    /\ load_fund_type_overrides(overrides_file) = (TickerX :> "debt")
    /\ cache_file.exists
    /\ is_cache_valid(cache_file, metadata_file, outputs)

(***************************************************************************)
(* Properties of get_capital_gains.                                        *)
(***************************************************************************)
\* no row of the files present makes a transaction
NoTransactions ==
    \A order \in ScanOrders(outputs) : load_transactions(outputs, order) = <<>>

\* the two files of the cache are the ones save_cached_gains writes for
\* the gains
FreshlyCached(gains) ==
    /\ cache_file = JsonFile([i \in 1..Len(gains) |-> to_dict(gains[i])])
    /\ metadata_file = JsonFile([processed_file_ids |-> get_transaction_file_ids(outputs),
                                  total_gains |-> Len(gains)])

\* C13: get_capital_gains(force_recalculate=True) always invalidates the
\* cache and then recomputes from the transaction files and the overrides
\* present; it never returns what the cache file held, whether the cache
\* was valid at the call or not.  After the call the files of the cache are
\* the ones this recomputation wrote, or none where it found no transaction.
C13_ForceRecalculates ==
    (last_op.op = "get_capital_gains" /\ last_op.force_recalculate) =>
        /\ last_op.served = "recalculated"
        /\ last_op.cache_read = "not read"
        /\ last_op.returned \in RecomputedGains
        /\ IF NoTransactions
           THEN ~cache_file.exists /\ ~metadata_file.exists
           ELSE FreshlyCached(last_op.returned)

\* a forced call made with a valid cache of a list other than the one the
\* call returned
C13_Witness ==
    /\ last_op.op = "get_capital_gains"
    /\ last_op.force_recalculate
    /\ is_cache_valid(last_op.cache_before, last_op.metadata_before, outputs)
    /\ ReadCache(last_op.cache_before) = "read"
    /\ last_op.returned # <<>>
    /\ last_op.returned # [i \in 1..Len(last_op.cache_before.data) |-> GainFromDict(last_op.cache_before.data[i])]

\* get_capital_gains(False) found the cache valid and could not read the
\* list: the cache file was gone by the time of the reading, could not be
\* parsed, or held a dict without one of the keys
CacheReadFailed ==
    /\ last_op.op = "get_capital_gains"
    /\ ~last_op.force_recalculate
    /\ is_cache_valid(last_op.cache_before, last_op.metadata_before, outputs)
    /\ \/ ReadCache(last_op.cache_before) # "read"
       \/ last_op.cache_read = "FileNotFoundError"

\* C14: when is_cache_valid() is true and the cached list is missing,
\* unreadable, unparseable or lacks a required field, get_capital_gains(False)
\* does not raise: it recomputes from the files present and returns the
\* result, which it also caches where there are transactions.
C14_SelfHealing ==
    /\ last_op.op = "get_capital_gains" => last_op.served \in {"cache", "recalculated"}
    /\ CacheReadFailed =>
          /\ last_op.served = "recalculated"
          /\ last_op.cache_read \in {"FileNotFoundError", "JSONDecodeError", "KeyError"}
          /\ last_op.returned \in RecomputedGains
          /\ ~NoTransactions => FreshlyCached(last_op.returned)

\* the call found a valid cache whose list was cut short by a write that
\* did not end, and returned gains
C14_Witness ==
    /\ CacheReadFailed
    /\ last_op.cache_before = Truncated
    /\ last_op.cache_read = "JSONDecodeError"
    /\ last_op.returned # <<>>

\* the call found a valid cache whose dicts lack keys, and returned gains
C14_WitnessKeyError ==
    /\ CacheReadFailed
    /\ last_op.cache_read = "KeyError"
    /\ last_op.returned # <<>>

\* the call found a valid cache whose file was gone at the reading, and
\* returned gains
C14_WitnessFileNotFound ==
    /\ CacheReadFailed
    /\ last_op.cache_before.exists
    /\ last_op.cache_read = "FileNotFoundError"
    /\ last_op.returned # <<>>

\* get_capital_gains has returned what a recomputation gave it
Recomputed ==
    /\ last_op.op = "get_capital_gains"
    /\ last_op.served = "recalculated"

\* C15: every recomputation that completes persists the list it returns
\* with fresh metadata, whose processed_file_ids is the sorted list of the
\* ids present and whose total_gains is the length of the list, so that
\* is_cache_valid() is true right after any get_capital_gains call; this
\* holds as well where there is no transaction at all and the list returned
\* is empty.
C15_EveryRecomputationCached ==
    /\ Recomputed => FreshlyCached(last_op.returned)
    /\ last_op.op = "get_capital_gains" => is_cache_valid(cache_file, metadata_file, outputs)

\* what holds of lines 92-99: a recomputation that found transactions has
\* persisted the list it returns with fresh metadata, and the cache is valid
\* after the call; one that found none has returned the empty list and has
\* left the files of the cache as they were
C15_CachedWhereTransactions ==
    /\ (Recomputed /\ ~NoTransactions) =>
          /\ FreshlyCached(last_op.returned)
          /\ metadata_file.data.total_gains = Len(last_op.returned)
          /\ is_cache_valid(cache_file, metadata_file, outputs)
    /\ (Recomputed /\ NoTransactions) =>
          /\ last_op.returned = <<>>
          /\ cache_file = (IF last_op.force_recalculate THEN NoFile ELSE last_op.cache_before)
          /\ metadata_file = (IF last_op.force_recalculate THEN NoFile ELSE last_op.metadata_before)
    /\ (last_op.op = "get_capital_gains" /\ last_op.served = "cache") =>
          is_cache_valid(cache_file, metadata_file, outputs)

\* get_capital_gains was called with no transaction file present: it
\* returned the empty list, and there is no cache on disk
C15_Witness ==
    /\ Recomputed
    /\ NoTransactions
    /\ last_op.returned = <<>>
    /\ ~cache_file.exists
    /\ ~metadata_file.exists
    /\ ~is_cache_valid(cache_file, metadata_file, outputs)

(***************************************************************************)
(* Properties of load_transactions.                                        *)
(***************************************************************************)
\* C16: a recomputation run twice over the same transaction files and the
\* same overrides yields the same records in the same order both times,
\* whatever the order in which the files are enumerated: of two forced
\* calls with nothing changed between them the second returns the list of
\* the first.
C16_Idempotence ==
    [][(/\ last_op.op = "get_capital_gains"
        /\ last_op.force_recalculate
        /\ last_op'.op = "get_capital_gains"
        /\ last_op'.force_recalculate
        /\ UNCHANGED <<outputs, overrides_file>>) =>
           last_op'.returned = last_op.returned]_vars

\* a forced call has returned one of two lists that the files present give,
\* each under an order of the scan
C16_Witness ==
    /\ last_op.op = "get_capital_gains"
    /\ last_op.force_recalculate
    /\ Cardinality(RecomputedGains) = 2
    /\ last_op.returned \in RecomputedGains

\* the rows of the files, in the order in which the files are found
RECURSIVE AllRows(_, _)
AllRows(out, order) ==
    IF order = <<>> THEN <<>>
    ELSE out[Head(order)].data \o AllRows(out, Tail(order))

\* the rows of a file up to the first one of which a number cannot be
\* parsed
RECURSIVE RowsBeforeBadNumber(_)
RowsBeforeBadNumber(rows) ==
    IF rows = <<>> THEN <<>>
    ELSE IF ParseRow(Head(rows)).outcome = "raised" THEN <<>>
    ELSE <<Head(rows)>> \o RowsBeforeBadNumber(Tail(rows))

\* those rows of the files, in the order in which the files are found
RECURSIVE AllRowsBeforeBadNumber(_, _)
AllRowsBeforeBadNumber(out, order) ==
    IF order = <<>> THEN <<>>
    ELSE RowsBeforeBadNumber(out[Head(order)].data) \o AllRowsBeforeBadNumber(out, Tail(order))

\* the date, the ticker and the numbers of the row can all be parsed
WellFormed(row) == ParseRow(row).outcome = "parsed"

\* the rows to keep: the well-formed rows whose key no well-formed row
\* before them has
FirstOfKey(rows) ==
    {k \in 1..Len(rows) :
        /\ WellFormed(rows[k])
        /\ \A j \in 1..(k - 1) :
              WellFormed(rows[j]) => ParseRow(rows[j]).dedup_key # ParseRow(rows[k]).dedup_key}

\* the transactions loaded are those of the rows to keep, one for each
LoadedAre(loaded, rows) ==
    /\ Len(loaded) = Cardinality(FirstOfKey(rows))
    /\ \A k \in FirstOfKey(rows) :
          \E i \in 1..Len(loaded) : loaded[i] = ParseRow(rows[k]).transaction

\* C17: load_transactions keeps one transaction for each composite key
\* (date, ticker, folio, units to 3 places, nav to 4 places): of the rows of
\* all the files that share a key the first one met, and every row whose key
\* no row kept before has; a row whose date, ticker, nav, units or amount
\* cannot be used is skipped, and the rows after it are still loaded.
C17_OnePerKey ==
    \A order \in ScanOrders(outputs) :
        LoadedAre(load_transactions(outputs, order), AllRows(outputs, order))

\* what holds of lines 79-140: the same of the rows of each file that come
\* before its first row with a nav, units or amount that is no number; the
\* rows of the file from that row on are not loaded
C17_OnePerKeyOfRowsRead ==
    \A order \in ScanOrders(outputs) :
        LoadedAre(load_transactions(outputs, order), AllRowsBeforeBadNumber(outputs, order))

\* a file is present with a well-formed row of a key of its own after a
\* row whose nav is no number, and the row is not among the ones loaded
C17_Witness ==
    \E order \in ScanOrders(outputs) :
        \E k \in FirstOfKey(AllRows(outputs, order)) :
            /\ \E j \in 1..(k - 1) : ParseRow(AllRows(outputs, order)[j]).outcome = "raised"
            /\ \A i \in 1..Len(load_transactions(outputs, order)) :
                  load_transactions(outputs, order)[i] # ParseRow(AllRows(outputs, order)[k]).transaction

(***************************************************************************)
(* Properties of the lots.                                                 *)
(***************************************************************************)
\* the lots of the queue, between two transactions of a bucket, have units
\* left, and no more than they were bought with
C18_LotsOpen ==
    pc = "txs" =>
        \A i \in 1..Len(fifo_queue) :
            /\ 0 < fifo_queue[i].units_left
            /\ fifo_queue[i].units_left <= fifo_queue[i].original_units

\* a lot that stays in the queue of its bucket does not gain units
C18_UnitsLeftDecrease ==
    bucket_idx' = bucket_idx =>
        \A i \in 1..Len(fifo_queue) : \A j \in 1..Len(fifo_queue') :
            fifo_queue'[j].id = fifo_queue[i].id =>
                fifo_queue'[j].units_left <= fifo_queue[i].units_left

\* C18: at every point between two transactions of a bucket every lot of
\* the queue has 0 < units_left <= original_units; units_left only ever
\* decreases, and a lot whose units_left is 0 is never in the queue.
C18_LotInvariant ==
    /\ []C18_LotsOpen
    /\ [][C18_UnitsLeftDecrease]_vars

\* the lots a sell has been matched against
MatchedLotIds == {match_log[i].lot.id : i \in 1..Len(match_log)}

\* what holds of lines 52-118: 0 <= units_left <= original_units at every
\* step, units_left never grows, and the lots of the queue without units
\* left are lots bought with units that round to 0.000 and not yet met by
\* a sell
C18_LotInvariantFromZero ==
    /\ [](\A i \in 1..Len(fifo_queue) :
             /\ 0 <= fifo_queue[i].units_left
             /\ fifo_queue[i].units_left <= fifo_queue[i].original_units
             /\ fifo_queue[i].units_left = 0 =>
                   /\ fifo_queue[i].original_units = 0
                   /\ fifo_queue[i].id \notin MatchedLotIds)
    /\ [][C18_UnitsLeftDecrease]_vars

\* between two transactions the queue holds a lot without units left, and
\* a sell met before has given a record of no units with a cost
C18_Witness ==
    /\ pc = "txs"
    /\ \E i \in 1..Len(fifo_queue) : fifo_queue[i].units_left = 0
    /\ \E i \in 1..Len(all_gains) : all_gains[i].units = 0 /\ all_gains[i].cost_basis > 0

(***************************************************************************)
(* Properties of the cache when the process dies.                          *)
(***************************************************************************)
\* C19: if the process stops inside save_cached_gains, with the cache file
\* partly written or with the cache file written and the metadata not yet,
\* then in whatever sequence of operations follows get_capital_gains(False)
\* never returns a list other than the one a fresh recomputation over the
\* transaction files and overrides then present would return.
C19_CrashSafety ==
    (last_op.op = "get_capital_gains" /\ ~last_op.force_recalculate) =>
        last_op.returned \in RecomputedGains

\* get_capital_gains(False) has served from the cache a list that no
\* recomputation over the files present gives
C19_Witness ==
    /\ last_op.op = "get_capital_gains"
    /\ ~last_op.force_recalculate
    /\ last_op.served = "cache"
    /\ last_op.returned # <<>>
    /\ last_op.returned \notin RecomputedGains

(***************************************************************************)
(* Properties of the term of a gain record.                                *)
(***************************************************************************)
\* C20: a gain record whose effective fund type is unknown has the term
\* get_debt_fund_term gives for the buy date of the lot and the sell date,
\* never the one of the equity rule; a record of type equity has
\* get_equity_fund_term(holding_days), and a record of type debt has
\* get_debt_fund_term of the two dates.
C20_TermByFundType ==
    \A i \in 1..Len(all_gains) :
        LET g == all_gains[i]
        IN  /\ g.fund_type \in {"equity", "debt", "unknown"}
            /\ DateOf(g.buy_date) = match_log[i].lot.date
            /\ DateOf(g.sell_date) = SellOf(i).date
            /\ g.holding_days = days_between(SellOf(i).date, match_log[i].lot.date)
            /\ g.term = (IF g.fund_type = "equity"
                         THEN get_equity_fund_term(g.holding_days)
                         ELSE get_debt_fund_term(match_log[i].lot.date, SellOf(i).date))

\* a record of a fund that is not in the table and has no override: its
\* type is unknown and its term is Short-term, where the equity rule gives
\* Long-term for its holding days
C20_Witness ==
    \E i \in 1..Len(all_gains) :
        /\ SellOf(i).ticker \notin DOMAIN fund_type_mapping
        /\ SellOf(i).ticker \notin DOMAIN manual_overrides
        /\ all_gains[i].fund_type = "unknown"
        /\ all_gains[i].term = "Short-term"
        /\ get_equity_fund_term(all_gains[i].holding_days) = "Long-term"

(***************************************************************************)
(* Properties of the order of the transactions of a bucket.                *)
(***************************************************************************)
\* the transactions of the input with the ticker and the folio given, in
\* the order of the input
RECURSIVE InputOf(_, _, _)
InputOf(txs, ticker, folio) ==
    IF txs = <<>> THEN <<>>
    ELSE IF Head(txs).ticker = ticker /\ Head(txs).folio = folio
         THEN <<Head(txs)>> \o InputOf(Tail(txs), ticker, folio)
         ELSE InputOf(Tail(txs), ticker, folio)

\* the place of the i-th of the transactions when they are put in the order
\* of their dates, and those of one date in the order they have
PlaceByDate(txs, i) ==
    1 + Cardinality({j \in 1..Len(txs) :
                        \/ toordinal(txs[j].date) < toordinal(txs[i].date)
                        \/ toordinal(txs[j].date) = toordinal(txs[i].date) /\ j < i})

\* the lot of gain record i was created by a transaction of the bucket
\* that was processed before the sell of the record
LotExistedBefore(i) ==
    \E c \in 1..Len(created_lots) :
        /\ created_lots[c].lot.id = match_log[i].lot.id
        /\ created_lots[c].bucket = match_log[i].bucket
        /\ created_lots[c].tx < match_log[i].tx

\* C21: within a bucket the transactions are processed in non-decreasing
\* order of date, and those of one date in the order of the input: a sell
\* that precedes a buy of its day in the input is matched before the lot of
\* that buy exists and cannot consume it, and a buy that precedes the sell
\* is available to it.
C21_DateThenInputOrder ==
    /\ pc # "group" =>
          \A b \in 1..Len(buckets) :
              LET txs   == buckets[b].txs
                  input == InputOf(transactions, txs[1].ticker, txs[1].folio)
              IN  /\ Len(txs) = Len(input)
                  /\ \A i \in 1..Len(input) : txs[PlaceByDate(input, i)] = input[i]
                  /\ \A i \in 1..(Len(txs) - 1) : toordinal(txs[i].date) <= toordinal(txs[i + 1].date)
    /\ \A i \in 1..Len(match_log) : LotExistedBefore(i)

\* the input is a sell and then a buy of the same day and fund: at the
\* return the sell has matched nothing and is in the warnings, and the lot
\* of the buy is whole
C21_Witness ==
    /\ pc = "done"
    /\ Len(transactions) = 2
    /\ transactions[1].side = "sell" /\ transactions[2].side = "buy"
    /\ transactions[1].date = transactions[2].date
    /\ BucketKey(transactions[1]) = BucketKey(transactions[2])
    /\ all_gains = <<>>
    /\ Len(warnings) = 1
    /\ Len(fifo_queue) = 1 /\ fifo_queue[1].units_left = fifo_queue[1].original_units
    /\ fifo_queue[1].units_left > 0

\* the input is a buy and then a sell of the same day and fund: the sell
\* has been matched against the lot of the buy
C21_WitnessBuyFirst ==
    /\ pc = "done"
    /\ Len(transactions) = 2
    /\ transactions[1].side = "buy" /\ transactions[2].side = "sell"
    /\ transactions[1].date = transactions[2].date
    /\ Len(all_gains) = 1 /\ all_gains[1].holding_days = 0 /\ all_gains[1].units > 0

(***************************************************************************)
(* Buckets of tickers and folios that hold the separator of the key.       *)
(***************************************************************************)
MaxKeyTx == 3

TickerA == <<"A">>

TickerAB == <<"A", "|", "|", "B">>

FolioC == <<"C">>

FolioBC == <<"B", "|", "|", "C">>

\* a buy and a sell of fund A in folio B||C, a buy and a sell of fund A||B
\* in folio C, and a buy of fund A in folio C
KeyRows ==
    { Transaction(Date(2022, 1, 1), TickerA, FolioBC, "buy", 1000000, 1000000, -1000000),
      Transaction(Date(2024, 1, 1), TickerA, FolioBC, "sell", 1500000, -1000000, 1500000),
      Transaction(Date(2023, 3, 31), TickerAB, FolioC, "buy", 1200000, 1000000, -1200000),
      Transaction(Date(2024, 1, 1), TickerAB, FolioC, "sell", 1500000, -500000, 750000),
      Transaction(Date(2022, 1, 1), TickerA, FolioC, "buy", 1000000, 1000000, -1000000) }

KeyMapping == (TickerA :> "debt") @@ (TickerAB :> "equity")

InitKeys ==
    /\ \E txs \in TxLists(KeyRows, MaxKeyTx) :
          FifoStart(txs, KeyMapping, EmptyDict)
    /\ PureIdle

SpecKeys == InitKeys /\ [][Next]_vars

\* C22: transactions of different (ticker, folio) pairs never share a lot
\* queue: the lot of every gain record was created by a buy with exactly
\* the ticker and exactly the folio of the sell of the record.
C22_BucketIsolation ==
    \A i \in 1..Len(match_log) :
        /\ BuyOf(match_log[i].lot).ticker = SellOf(i).ticker
        /\ BuyOf(match_log[i].lot).folio = SellOf(i).folio

\* a sell of fund A||B in folio C has been matched against a lot bought of
\* fund A in folio B||C
C22_Witness ==
    \E i \in 1..Len(match_log) :
        /\ SellOf(i).ticker = TickerAB /\ SellOf(i).folio = FolioC
        /\ BuyOf(match_log[i].lot).ticker = TickerA
        /\ BuyOf(match_log[i].lot).folio = FolioBC
        /\ match_log[i].lot.units_left > 0

\* the same isolation for the tickers and folios that do not hold the
\* separator: the transactions of a bucket have one ticker and one folio
C22_OneFundPerBucket ==
    pc # "group" =>
        \A b \in 1..Len(buckets) : \A i, j \in 1..Len(buckets[b].txs) :
            /\ buckets[b].txs[i].ticker = buckets[b].txs[j].ticker
            /\ buckets[b].txs[i].folio = buckets[b].txs[j].folio

(***************************************************************************)
(* The calls of the service on threads of their own: routes.py hands each  *)
(* call to asyncio.to_thread, and neither the service nor the repository   *)
(* holds a lock.  A thread takes one step for each access to a file or to  *)
(* the directory.                                                          *)
(***************************************************************************)
ThreadIds == {1, 2}

TickerZ == <<"Z">>

\* routes.py line 121
SaveOverrideCall(ticker, fund_type) ==
    [fn |-> "save_fund_type_override", overrides |-> (ticker :> fund_type)]

\* routes.py line 156
SaveBatchCall(overrides) == [fn |-> "save_fund_type_overrides_batch", overrides |-> overrides]

\* routes.py line 45
GetGainsCall(force_recalculate) == [fn |-> "get_capital_gains", force_recalculate |-> force_recalculate]

IsSave(c) == c.fn \in {"save_fund_type_override", "save_fund_type_overrides_batch"}

\* a thread that has been given its call
Started(c) ==
    [call |-> c, pc |-> "start", to_write |-> NoFile, transactions |-> <<>>, file_ids |-> <<>>,
     manual_overrides |-> EmptyDict, gains |-> <<>>, metadata |-> NoFile, returned |-> <<>>]

ThreadDone(t) == threads[t].pc \in {"returned", "raised"}

\* what the repository does with the override store it has read
SaveOf(c, file) ==
    IF c.fn = "save_fund_type_override"
    THEN LET ticker == CHOOSE k \in DOMAIN c.overrides : TRUE
         IN  save_fund_type_override(ticker, c.overrides[ticker], file)
    ELSE save_fund_type_overrides_batch(c.overrides, file)

\* repository.py lines 179-183 and 206-214: the types are validated, the
\* store is read and the entries are put into the dict read
LoadOverridesToUpdate(t) ==
    /\ threads[t].pc = "start" /\ IsSave(threads[t].call)
    /\ \E r \in {SaveOf(threads[t].call, overrides_file)} :
          threads' = [threads EXCEPT ![t].pc = IF r.raised THEN "raised" ELSE "open_overrides",
                                     ![t].to_write = r.overrides_file]
    /\ UNCHANGED <<fifoVars, call, result, serviceVars, thread_log>>

\* repository.py lines 188 and 219: open(.., 'w') empties the file
OpenOverrides(t) ==
    /\ threads[t].pc = "open_overrides"
    /\ overrides_file' = Truncated
    /\ threads' = [threads EXCEPT ![t].pc = "dump_overrides"]
    /\ UNCHANGED <<fifoVars, call, result, outputs, cache_file, metadata_file, last_op, thread_log>>

\* repository.py lines 189 and 220: json.dump of the dict of the thread
DumpOverrides(t) ==
    /\ threads[t].pc = "dump_overrides"
    /\ overrides_file' = threads[t].to_write
    /\ threads' = [threads EXCEPT ![t].pc = "unlink_cache"]
    /\ UNCHANGED <<fifoVars, call, result, outputs, cache_file, metadata_file, last_op, thread_log>>

\* cache_manager.py lines 68-70
UnlinkCache(t) ==
    /\ threads[t].pc = "unlink_cache"
    /\ cache_file' = invalidate_cache(cache_file, metadata_file).cache_file
    /\ threads' = [threads EXCEPT ![t].pc = "unlink_metadata"]
    /\ UNCHANGED <<fifoVars, call, result, outputs, overrides_file, metadata_file, last_op, thread_log>>

\* cache_manager.py lines 71-73; service.py lines 110 and 120 return, and
\* line 40 goes on to recalculate
UnlinkMetadata(t) ==
    /\ threads[t].pc = "unlink_metadata"
    /\ metadata_file' = invalidate_cache(cache_file, metadata_file).metadata_file
    /\ threads' = [threads EXCEPT ![t].pc = IF IsSave(threads[t].call) THEN "returned"
                                            ELSE "load_transactions"]
    /\ UNCHANGED <<fifoVars, call, result, outputs, overrides_file, cache_file, last_op, thread_log>>

\* service.py lines 37-45: a forced call invalidates, another asks
\* whether the cache is valid
CheckCache(t) ==
    /\ threads[t].pc = "start" /\ ~IsSave(threads[t].call)
    /\ threads' = [threads EXCEPT ![t].pc =
                      IF threads[t].call.force_recalculate THEN "unlink_cache"
                      ELSE IF is_cache_valid(cache_file, metadata_file, outputs) THEN "read_cache"
                      ELSE "load_transactions"]
    /\ UNCHANGED <<fifoVars, call, result, serviceVars, thread_log>>

\* service.py lines 46-75: the list of the cache file is returned, or the
\* reading raises and the call goes on to recalculate
ReadCacheFile(t) ==
    /\ threads[t].pc = "read_cache"
    /\ threads' = IF ReadCache(cache_file) = "read"
                  THEN [threads EXCEPT ![t].pc = "returned", ![t].returned = FromCache.returned]
                  ELSE [threads EXCEPT ![t].pc = "load_transactions"]
    /\ UNCHANGED <<fifoVars, call, result, serviceVars, thread_log>>

\* service.py lines 86-90
LoadTransactions(t) ==
    /\ threads[t].pc = "load_transactions"
    /\ \E order \in ScanOrders(outputs) :
          \E txs \in {load_transactions(outputs, order)} :
              threads' = IF txs = <<>>
                         THEN [threads EXCEPT ![t].pc = "returned"]
                         ELSE [threads EXCEPT ![t].pc = "load_overrides",
                                              ![t].transactions = txs,
                                              ![t].file_ids = get_transaction_file_ids(outputs)]
    /\ UNCHANGED <<fifoVars, call, result, serviceVars, thread_log>>

\* service.py lines 92-95: the overrides are read and the gains calculated
LoadOverridesAndCalculate(t) ==
    /\ threads[t].pc = "load_overrides"
    /\ \E overrides \in {load_fund_type_overrides(overrides_file)} :
          threads' = [threads EXCEPT ![t].pc = "open_cache",
                                     ![t].manual_overrides = overrides,
                                     ![t].gains = calculate_fifo_gains(threads[t].transactions,
                                                                       get_fund_type_mapping, overrides)]
    /\ UNCHANGED <<fifoVars, call, result, serviceVars, thread_log>>

\* repository.py line 259
OpenCache(t) ==
    /\ threads[t].pc = "open_cache"
    /\ cache_file' = Truncated
    /\ threads' = [threads EXCEPT ![t].pc = "dump_cache"]
    /\ UNCHANGED <<fifoVars, call, result, outputs, overrides_file, metadata_file, last_op, thread_log>>

\* repository.py line 260
DumpCache(t) ==
    /\ threads[t].pc = "dump_cache"
    /\ cache_file' = save_cached_gains(threads[t].gains, outputs).cache_file
    /\ threads' = [threads EXCEPT ![t].pc = "scan"]
    /\ thread_log' = [thread_log EXCEPT !.cache_overrides = threads[t].manual_overrides,
                                        !.cache_file_ids = threads[t].file_ids]
    /\ UNCHANGED <<fifoVars, call, result, outputs, overrides_file, metadata_file, last_op>>

\* repository.py lines 263-267: the file ids are those of the directory as
\* it is now
ScanForMetadata(t) ==
    /\ threads[t].pc = "scan"
    /\ threads' = [threads EXCEPT ![t].pc = "open_metadata",
                                  ![t].metadata = save_cached_gains(threads[t].gains, outputs).metadata_file]
    /\ UNCHANGED <<fifoVars, call, result, serviceVars, thread_log>>

\* repository.py line 268
OpenMetadata(t) ==
    /\ threads[t].pc = "open_metadata"
    /\ metadata_file' = Truncated
    /\ threads' = [threads EXCEPT ![t].pc = "dump_metadata"]
    /\ UNCHANGED <<fifoVars, call, result, outputs, overrides_file, cache_file, last_op, thread_log>>

\* repository.py line 269, and service.py line 99
DumpMetadata(t) ==
    /\ threads[t].pc = "dump_metadata"
    /\ metadata_file' = threads[t].metadata
    /\ threads' = [threads EXCEPT ![t].pc = "returned", ![t].returned = threads[t].gains]
    /\ UNCHANGED <<fifoVars, call, result, outputs, overrides_file, cache_file, last_op, thread_log>>

\* the calls of the first thread and those of the second
FirstCalls ==
    { GetGainsCall(FALSE), GetGainsCall(TRUE), SaveOverrideCall(TickerY, "equity"),
      SaveBatchCall((TickerY :> "debt") @@ (TickerZ :> "equity")) }

SecondCalls ==
    { SaveOverrideCall(TickerX, "debt"), SaveOverrideCall(TickerX, "unknown"),
      SaveBatchCall((TickerX :> "equity")) }

\* the first file of the directory is there
OneFile ==
    [p \in TransactionPaths |->
        IF p = [date_dir |-> "2024-01-15", file_id |-> "a1b2"] THEN TransactionFile(FileOne, 1) ELSE NoFile]

\* the calls are made with one transaction file, an override store that
\* is empty or has one entry, and no cache or the cache of an earlier call
InitThreads ==
    /\ FifoIdle
    /\ call = NoCall /\ result = NoResult /\ last_op = NoOp
    /\ outputs = OneFile
    /\ overrides_file \in {NoFile, JsonFile((TickerZ :> "debt"))}
    /\ \E written \in {save_cached_gains(
                             calculate_fifo_gains(load_transactions(OneFile, CHOOSE o \in ScanOrders(OneFile) : TRUE),
                                                  get_fund_type_mapping, load_fund_type_overrides(overrides_file)),
                             OneFile)} :
          \/ cache_file = NoFile /\ metadata_file = NoFile
          \/ cache_file = written.cache_file /\ metadata_file = written.metadata_file
    /\ threads \in {<<Started(c1), Started(c2)>> : c1 \in FirstCalls, c2 \in SecondCalls}
    /\ thread_log = [overrides_at_call |-> load_fund_type_overrides(overrides_file),
                     cache_overrides |-> load_fund_type_overrides(overrides_file),
                     cache_file_ids |-> get_transaction_file_ids(OneFile)]

NextThreads ==
    \/ \E t \in ThreadIds : LoadOverridesToUpdate(t)
    \/ \E t \in ThreadIds : OpenOverrides(t)
    \/ \E t \in ThreadIds : DumpOverrides(t)
    \/ \E t \in ThreadIds : UnlinkCache(t)
    \/ \E t \in ThreadIds : UnlinkMetadata(t)
    \/ \E t \in ThreadIds : CheckCache(t)
    \/ \E t \in ThreadIds : ReadCacheFile(t)
    \/ \E t \in ThreadIds : LoadTransactions(t)
    \/ \E t \in ThreadIds : LoadOverridesAndCalculate(t)
    \/ \E t \in ThreadIds : OpenCache(t)
    \/ \E t \in ThreadIds : DumpCache(t)
    \/ \E t \in ThreadIds : ScanForMetadata(t)
    \/ \E t \in ThreadIds : OpenMetadata(t)
    \/ \E t \in ThreadIds : DumpMetadata(t)
    \/ FilesComeAndGo

SpecThreads == InitThreads /\ [][NextThreads]_vars

(***************************************************************************)
(* Properties of the calls on threads.                                     *)
(***************************************************************************)
\* the two calls are saves of overrides and both have returned
BothSavesReturned ==
    \A t \in ThreadIds : IsSave(threads[t].call) /\ threads[t].pc = "returned"

\* the tickers the calls write
WrittenTickers == UNION {DOMAIN threads[t].call.overrides : t \in ThreadIds}

\* C23: saves of overrides that write distinct tickers do not lose each
\* other: once the calls have returned the override store has every
\* written ticker with its written value, and the entries it had before.
C23_NoLostOverride ==
    (threads # NoThreads /\ BothSavesReturned) =>
        LET store == load_fund_type_overrides(overrides_file)
        IN  /\ \A t \in ThreadIds : \A k \in DOMAIN threads[t].call.overrides :
                   k \in DOMAIN store /\ store[k] = threads[t].call.overrides[k]
            /\ \A k \in DOMAIN thread_log.overrides_at_call \ WrittenTickers :
                   k \in DOMAIN store /\ store[k] = thread_log.overrides_at_call[k]

\* both saves have returned and the store has the entry of the second
\* thread and not that of the first
C23_Witness ==
    /\ threads # NoThreads /\ BothSavesReturned
    /\ threads[1].call = SaveOverrideCall(TickerY, "equity")
    /\ threads[2].call = SaveOverrideCall(TickerX, "debt")
    /\ overrides_file.exists /\ overrides_file.json
    /\ TickerX \in DOMAIN overrides_file.data
    /\ TickerY \notin DOMAIN overrides_file.data

\* the same two saves have returned and the store has both entries
C23_WitnessBothKept ==
    /\ threads # NoThreads /\ BothSavesReturned
    /\ threads[1].call = SaveOverrideCall(TickerY, "equity")
    /\ threads[2].call = SaveOverrideCall(TickerX, "debt")
    /\ overrides_file.exists /\ overrides_file.json
    /\ {TickerX, TickerY} \subseteq DOMAIN overrides_file.data

\* the first thread has asked for the gains, the second has saved an
\* override, and both have returned
GainsAndSaveReturned ==
    /\ threads # NoThreads
    /\ ~IsSave(threads[1].call) /\ threads[1].pc = "returned"
    /\ IsSave(threads[2].call) /\ threads[2].pc = "returned"

\* C24: once a recomputation and a save of an override on another thread
\* have both returned, the cache is not valid while its list was computed
\* with the override store as it was before the save.
C24_NoStaleCacheAfterOverride ==
    (GainsAndSaveReturned /\ is_cache_valid(cache_file, metadata_file, outputs)) =>
        thread_log.cache_overrides = load_fund_type_overrides(overrides_file)

\* both have returned, the store has the override of X, the cache is
\* valid and the first thread has written it without that override
C24_Witness ==
    /\ GainsAndSaveReturned
    /\ threads[2].call = SaveOverrideCall(TickerX, "debt")
    /\ is_cache_valid(cache_file, metadata_file, outputs)
    /\ load_fund_type_overrides(overrides_file) = (TickerX :> "debt")
    /\ threads[1].manual_overrides = EmptyDict
    /\ cache_file.exists /\ cache_file.json /\ Len(cache_file.data) > 0
    /\ \A i \in 1..Len(cache_file.data) : cache_file.data[i].fund_type = "equity"
    /\ cache_file.data = save_cached_gains(threads[1].gains, outputs).cache_file.data

\* both have returned and the cache is valid with a list computed with
\* the store as it is
C24_WitnessFresh ==
    /\ GainsAndSaveReturned
    /\ threads[2].call = SaveOverrideCall(TickerX, "debt")
    /\ is_cache_valid(cache_file, metadata_file, outputs)
    /\ thread_log.cache_overrides = (TickerX :> "debt")
    /\ load_fund_type_overrides(overrides_file) = (TickerX :> "debt")

\* C25: the fingerprint of the metadata is the set of the files whose
\* transactions were loaded for the list of the cache: the cache is never
\* valid while its list was computed from other files than those of the
\* directory.
C25_FingerprintOfLoadedFiles ==
    (threads # NoThreads /\ is_cache_valid(cache_file, metadata_file, outputs)) =>
        thread_log.cache_file_ids = get_transaction_file_ids(outputs)

\* a recomputation has loaded one file and returned, the directory has
\* two, and the cache is valid with the list of the one file
C25_Witness ==
    /\ threads # NoThreads
    /\ ~IsSave(threads[1].call) /\ threads[1].pc = "returned"
    /\ threads[2].pc = "start"
    /\ threads[1].file_ids = <<"a1b2">>
    /\ get_transaction_file_ids(outputs) = <<"a1b2", "c3d4">>
    /\ is_cache_valid(cache_file, metadata_file, outputs)
    /\ thread_log.cache_file_ids = <<"a1b2">>
    /\ threads[1].returned = threads[1].gains
    /\ cache_file.data = save_cached_gains(threads[1].gains, outputs).cache_file.data

(***************************************************************************)
(* Termination of calculate_fifo_gains.                                    *)
(***************************************************************************)
MaxFairTx == 3

\* the buys and the sells of FifoRows that are of one fund and not of
\* the first day
FairRows == {tx \in FifoRows : tx.ticker = TickerX /\ ~(tx.side = "sell" /\ tx.date = Date(2022, 1, 1))}

InitFair ==
    /\ \E txs \in TxLists(FairRows, MaxFairTx) :
          FifoStart(txs, FifoMapping, EmptyDict)
    /\ PureIdle

\* the function is one thread of control that takes its next step as long
\* as it has one; the lists are of at most MaxFairTx transactions
SpecFair == InitFair /\ [][Next]_vars /\ WF_vars(Next)

\* an iteration of the matching loop takes the front lot from the queue
\* or leaves nothing to match
C26_IterationProgress ==
    [][(pc = "match" /\ match_log' # match_log) =>
            (Len(fifo_queue') < Len(fifo_queue) \/ units_to_match' = 0)]_vars

\* a sell has at most as many gain records as its bucket had open lots
\* when it started
C26_RecordsBound ==
    pc = "match" => Cardinality(GainsOf(bucket_idx, tx_idx)) <= Len(sell_queue)

\* C26: calculate_fifo_gains terminates for every transaction list: each
\* iteration of the matching loop dequeues the front lot or brings the
\* units to match to 0, so a sell emits at most as many gain records as
\* there are open lots in its bucket, and the function returns.
C26_Termination ==
    /\ C26_IterationProgress
    /\ []C26_RecordsBound
    /\ <>(pc = "done")

\* the function has returned after a sell that took one lot whole and a
\* part of the next: two records against two open lots
C26_Witness ==
    /\ pc = "done"
    /\ \E b \in 1..Len(buckets) : \E t \in 1..Len(buckets[b].txs) :
          /\ buckets[b].txs[t].side = "sell"
          /\ Cardinality(GainsOf(b, t)) = 2
    /\ fifo_queue # <<>>

(***************************************************************************)
(* Properties of the sells that find no lot.                               *)
(***************************************************************************)
\* the buy of created lot c
BuyOfCreated(c) == buckets[created_lots[c].bucket].txs[created_lots[c].tx]

\* C27: what an oversell could not match is dropped: a sell starts with
\* its own units to match, every gain record is against a lot of a buy
\* processed before its sell, and a buy enters the queue with all its
\* units, also after an oversell.
C27_RemainderDropped ==
    /\ (pc = "match" /\ GainsOf(bucket_idx, tx_idx) = {}) => units_to_match = CurrentTx.units
    /\ \A i \in 1..Len(match_log) :
          /\ created_lots[match_log[i].lot.id].bucket = match_log[i].bucket
          /\ created_lots[match_log[i].lot.id].tx < match_log[i].tx
    /\ \A c \in 1..Len(created_lots) :
          /\ created_lots[c].lot.units_left = BuyOfCreated(c).units
          /\ created_lots[c].lot.original_units = BuyOfCreated(c).units
    /\ (pc = "txs" /\ tx_idx > 0 /\ CurrentTx.side = "buy") =>
          /\ fifo_queue # <<>>
          /\ fifo_queue[Len(fifo_queue)].units_left = CurrentTx.units

\* a sell found no lot and was logged, a buy followed it, and the sell
\* after that buy was matched against the whole of its lot
C27_Witness ==
    /\ pc = "done"
    /\ Len(transactions) = 3 /\ Len(buckets) = 1
    /\ buckets[1].txs[1].side = "sell" /\ buckets[1].txs[2].side = "buy"
    /\ buckets[1].txs[3].side = "sell"
    /\ Len(warnings) >= 1 /\ warnings[1].units = buckets[1].txs[1].units
    /\ GainsOf(1, 1) = {}
    /\ \E i \in GainsOf(1, 3) :
          /\ match_log[i].lot.units_left = buckets[1].txs[2].units
          /\ match_log[i].units_to_match = buckets[1].txs[3].units
          /\ all_gains[i].units > 0

(***************************************************************************)
(* Properties of the units of the gain records.                            *)
(***************************************************************************)
\* the units of every gain record are at most the original units of its
\* lot, and at most the units the lot had left
C28_UnitsWithinLot ==
    \A i \in 1..Len(all_gains) :
        /\ all_gains[i].units >= 0
        /\ all_gains[i].units <= match_log[i].lot.original_units
        /\ all_gains[i].units <= match_log[i].lot.units_left

\* C28: every gain record has units above 0 and at most the original
\* units of the lot it was matched against, also when buys have units that
\* are 0 or round to 0.000; no record has zero units and an acquisition
\* cost that is not zero.
C28_PositiveUnits ==
    \A i \in 1..Len(all_gains) :
        /\ all_gains[i].units > 0
        /\ all_gains[i].units <= match_log[i].lot.original_units
        /\ ~(all_gains[i].units = 0 /\ all_gains[i].cost_basis # 0)

\* the function has returned a record of 0.000 units, matched against the
\* lot of a buy whose units rounded to 0.000, with an acquisition cost
C28_Witness ==
    /\ pc = "done"
    /\ \E i \in 1..Len(all_gains) :
          /\ all_gains[i].units = 0
          /\ all_gains[i].cost_basis # 0
          /\ all_gains[i].gain = 0 - all_gains[i].cost_basis
          /\ match_log[i].lot.original_units = 0
          /\ BuyOf(match_log[i].lot).side = "buy"

(***************************************************************************)
(* load_transactions over files with a buy and a sell of the same day,     *)
(* fund, units and NAV.                                                    *)
(***************************************************************************)
MaxDedupRows == 3

\* a buy of 100 at 10, the sale of 100 at 10 on the same day written in
\* parentheses and written with a minus sign, the buy with the numbers
\* written otherwise, and a buy of the day after
DedupRows ==
    { Row(Date(2024, 1, 1), <<"X">>, <<"F">>, <<"1", "0">>, <<"1", "0", "0">>,
          <<"1", ",", "0", "0", "0", ".", "0", "0">>),
      Row(Date(2024, 1, 1), <<"X">>, <<"F">>, <<"1", "0">>, <<"(", "1", "0", "0", ")">>,
          <<"(", "1", ",", "0", "0", "0", ".", "0", "0", ")">>),
      Row(Date(2024, 1, 1), <<"X">>, <<"F">>, <<"1", "0">>, <<"-", "1", "0", "0">>,
          <<"1", "0", "0", "0">>),
      Row(Date(2024, 1, 1), <<"X">>, <<"F">>, <<"1", "0", ".", "0">>, <<"1", "0", "0", ".", "0">>,
          <<"1", "0", "0", "0">>),
      Row(Date(2024, 1, 2), <<"X">>, <<"F">>, <<"1", "0">>, <<"1", "0", "0">>,
          <<"1", "0", "0", "0">>) }

\* repository.py lines 54-144, called on its own
CallLoadTransactions ==
    /\ \E order \in ScanOrders(outputs) :
          last_op' = [op |-> "load_transactions", returned |-> load_transactions(outputs, order)]
    /\ UNCHANGED <<fifoVars, threadVars, call, result, outputs, overrides_file, cache_file, metadata_file>>

\* one transaction file of at most MaxDedupRows rows
InitDedup ==
    /\ FifoIdle
    /\ call = NoCall /\ result = NoResult
    /\ \E rows \in UNION {[1..k -> DedupRows] : k \in 0..MaxDedupRows} :
          outputs = [p \in TransactionPaths |->
                        IF p = [date_dir |-> "2024-01-15", file_id |-> "a1b2"]
                        THEN TransactionFile(rows, 1) ELSE NoFile]
    /\ overrides_file = NoFile /\ cache_file = NoFile /\ metadata_file = NoFile
    /\ last_op = NoOp
    /\ threads = NoThreads /\ thread_log = NoOp

NextDedup == CallLoadTransactions

SpecDedup == InitDedup /\ [][NextDedup]_vars

\* the rows of the one file
RowsOfTheFile == outputs[[date_dir |-> "2024-01-15", file_id |-> "a1b2"]].data

\* transaction t is what row r gives: the side, the date, the fund, the
\* folio, the units and the NAV
LoadedFrom(t, r) ==
    LET tx == ParseRow(r).transaction
    IN  /\ t.side = tx.side /\ t.date = tx.date /\ t.ticker = tx.ticker /\ t.folio = tx.folio
        /\ t.units = tx.units /\ t.nav = tx.nav

\* C29: the deduplication of load_transactions removes only repeated
\* copies of a transaction: a buy and a sell of the same fund, folio, day,
\* units and NAV are both loaded.
C29_BuyAndSellBothLoaded ==
    last_op.op = "load_transactions" =>
        \A i \in 1..Len(RowsOfTheFile) :
            \E j \in 1..Len(last_op.returned) : LoadedFrom(last_op.returned[j], RowsOfTheFile[i])

\* the file has the buy and then the sale of the same units at the same
\* NAV, and one transaction has been loaded, the buy
C29_Witness ==
    /\ last_op.op = "load_transactions"
    /\ Len(RowsOfTheFile) = 2
    /\ ParseRow(RowsOfTheFile[1]).transaction.side = "buy"
    /\ ParseRow(RowsOfTheFile[2]).transaction.side = "sell"
    /\ ParseRow(RowsOfTheFile[1]).dedup_key = ParseRow(RowsOfTheFile[2]).dedup_key
    /\ Len(last_op.returned) = 1
    /\ last_op.returned[1].side = "buy"

\* the copies of a row are what the deduplication removes: the loaded
\* transactions are of distinct keys, and every row has one of its key
C29_OneOfEveryKey ==
    last_op.op = "load_transactions" =>
        \A i \in 1..Len(RowsOfTheFile) :
            \E j \in 1..Len(last_op.returned) :
                LET t  == last_op.returned[j]
                    tx == ParseRow(RowsOfTheFile[i]).transaction
                IN  t.date = tx.date /\ t.ticker = tx.ticker /\ t.folio = tx.folio
                    /\ t.units = tx.units /\ t.nav = tx.nav

(***************************************************************************)
(* Properties of the dates of the gain records.                            *)
(***************************************************************************)
\* C30: a sell is never matched against a lot bought on a later date:
\* every gain record has holding_days >= 0 and a buy date that is not
\* after its sell date, whatever the order of the transactions given.
C30_NoLaterLot ==
    \A i \in 1..Len(all_gains) :
        /\ all_gains[i].holding_days >= 0
        /\ toordinal(match_log[i].lot.date) <= toordinal(SellOf(i).date)
        /\ all_gains[i].buy_date = strftime(match_log[i].lot.date)
        /\ all_gains[i].sell_date = strftime(SellOf(i).date)

\* the list given has a sell and then the buy of an earlier date; the
\* function has returned with the sell matched against the lot of the buy
C30_Witness ==
    /\ pc = "done"
    /\ Len(transactions) = 2 /\ Len(buckets) = 1
    /\ transactions[1].side = "sell" /\ transactions[2].side = "buy"
    /\ toordinal(transactions[2].date) < toordinal(transactions[1].date)
    /\ buckets[1].txs = <<transactions[2], transactions[1]>>
    /\ Len(all_gains) = 1 /\ all_gains[1].holding_days > 0
    /\ all_gains[1].buy_date = strftime(transactions[2].date)

====
